---------------------------- MODULE Spec2Model ----------------------------
(***************************************************************************)
(* A state-machine model of the llm-dungeon-roguelike game: the dungeon    *)
(* generator (game/world/map_generator.py), the dungeon grid and its       *)
(* occupant lists (game/world/dungeon.py), level generation in the engine  *)
(* (game/engine/game.py) and the conversation memory of generated          *)
(* characters (game/entities/npc.py).                                      *)
(*                                                                         *)
(* Random draws of the program are nondeterministic choices (\E) over the  *)
(* range the code draws from.  Loops whose iterations draw at random are   *)
(* modelled one iteration per step, with pc naming the position.           *)
(***************************************************************************)
EXTENDS Integers, Sequences, FiniteSets, TLC

(***************************************************************************)
(* Tile values (dungeon.py, the comment in Dungeon.__init__).              *)
(***************************************************************************)
Wall == 0
Floor == 1
Stairs == 2

(***************************************************************************)
(* MapGenerator.__init__: the room sizes.  max_room_size is 10 in the      *)
(* source; the model scales it down, together with the grid, so that the   *)
(* reachable dungeons can be enumerated.                                   *)
(***************************************************************************)
MinRoomSize == 5
MaxRoomSize == 5

(***************************************************************************)
(* Scaled-down generator parameters (width, height, max_rooms) of the      *)
(* generator-only specification SpecGen and of the level specification     *)
(* Spec.  The source's defaults are 80 x 20 and 10 rooms.                  *)
(***************************************************************************)
GenWidth == 13
GenHeight == 13
GenMaxRooms == 3
LevelWidth == 13
LevelHeight == 7
LevelMaxRooms == 2

VARIABLES
    width,          \* Dungeon.width / MapGenerator.width
    height,         \* Dungeon.height / MapGenerator.height
    max_rooms,      \* MapGenerator.max_rooms
    tiles,          \* Dungeon.tiles, tiles[x][y]
    rooms,          \* MapGenerator.rooms, the accepted rooms in order
    r,              \* loop index of "for r in range(self.max_rooms)"
    pc,             \* position of the program
    entities,       \* Dungeon.entities: sequence of entity ids
    npcs,           \* Dungeon.npcs: sequence of entity ids
    enemies,        \* Dungeon.enemies: sequence of entity ids
    ent,            \* the entity objects: id -> fields
    player,         \* Game.player: [x, y, hp, attack]
    current_level,  \* Game.current_level / the level passed to populate
    todo,           \* populate_entities: characters still to place
    game_log,       \* Game.game_log
    history,        \* conversation_history of one character
    max_history_length, \* its max_history_length
    talks,          \* number of talk(query) calls made to the character
    cap,            \* model bound on populate's random head counts
    call,           \* the last call or input handled: [op, args, ret]
    running,        \* Game.running
    steps,          \* number of inputs or calls handled so far (model bound)
    use_pregenerated,     \* NPCGenerator.use_pregenerated
    save_generated,       \* NPCGenerator.save_generated / Game.save_characters
    npc_cache,            \* NPCGenerator.npc_cache: key -> descriptor
    enemy_cache,          \* NPCGenerator.enemy_cache
    pregenerated_npcs,    \* NPCGenerator.pregenerated_npcs
    pregenerated_enemies, \* NPCGenerator.pregenerated_enemies
    npc_file,             \* the content of game/data/npcs.json
    enemy_file            \* the content of game/data/enemies.json

vars == <<width, height, max_rooms, tiles, rooms, r, pc, entities, npcs,
          enemies, ent, player, current_level, todo, game_log, history,
          max_history_length, talks, cap, call, running, steps,
          use_pregenerated, save_generated, npc_cache, enemy_cache,
          pregenerated_npcs, pregenerated_enemies, npc_file, enemy_file>>

genVars == <<width, height, max_rooms, tiles, rooms, r>>
entVars == <<entities, npcs, enemies, ent, todo, cap>>
gameVars == <<player, current_level, game_log, running, steps>>
talkVars == <<history, max_history_length, talks>>
charVars == <<use_pregenerated, save_generated, npc_cache, enemy_cache,
              pregenerated_npcs, pregenerated_enemies, npc_file, enemy_file>>

Min(a, b) == IF a < b THEN a ELSE b
Max(a, b) == IF a > b THEN a ELSE b
Abs(a) == IF a < 0 THEN 0 - a ELSE a

(***************************************************************************)
(* Room                                                                    *)
(***************************************************************************)
Room(x1, y1, x2, y2) == [x1 |-> x1, y1 |-> y1, x2 |-> x2, y2 |-> y2]

\* Room.center: integer midpoint (floor division)
Center(room) == <<(room.x1 + room.x2) \div 2, (room.y1 + room.y2) \div 2>>

\* A slip: the last comparison is forgotten.
IntersectsThreeSided(a, b) ==
    /\ a.x1 <= b.x2
    /\ a.x2 >= b.x1
    /\ a.y1 <= b.y2

\* Room.intersects
Intersects(a, b) ==
    /\ a.x1 <= b.x2
    /\ a.x2 >= b.x1
    /\ a.y1 <= b.y2
    /\ a.y2 >= b.y1

(***************************************************************************)
(* Dungeon: the grid                                                       *)
(***************************************************************************)
\* Dungeon.__init__: [[0 for y in range(height)] for x in range(width)]
NewTiles(w, h) == [x \in 0..(w - 1) |-> [y \in 0..(h - 1) |-> Wall]]

GridWidth(t) == Cardinality(DOMAIN t)
GridHeight(t) == IF DOMAIN t = {} THEN 0 ELSE Cardinality(DOMAIN t[0])

\* dungeon.tiles[x][y] = v
SetTile(t, x, y, v) == [t EXCEPT ![x] = [@ EXCEPT ![y] = v]]

\* Entity.__init__: the fields the dungeon reads
Entity(type, x, y, blocks, hp, attack) ==
    [entity_type |-> type, x |-> x, y |-> y, blocks_movement |-> blocks,
     hp |-> hp, attack |-> attack]

\* The entity objects of a list of ids, in list order.
Objs(ids, store) == [i \in 1..Len(ids) |-> store[ids[i]]]

\* A slip: the lower bounds are not checked, so a negative coordinate indexes
\* the grid from its far end, as Python's lists do.
IsWalkableNoLower(t, es, x, y) ==
    IF ~(x < GridWidth(t) /\ y < GridHeight(t))
    THEN FALSE
    ELSE LET xx == IF x < 0 THEN x + GridWidth(t) ELSE x
             yy == IF y < 0 THEN y + GridHeight(t) ELSE y
         IN  IF t[xx][yy] \notin {Floor, Stairs}
             THEN FALSE
             ELSE ~(\E i \in 1..Len(es) :
                      es[i].x = x /\ es[i].y = y /\ es[i].blocks_movement)

\* Dungeon.is_walkable on grid t with the entity objects es
IsWalkable(t, es, x, y) ==
    IF ~(0 <= x /\ x < GridWidth(t) /\ 0 <= y /\ y < GridHeight(t))
    THEN FALSE
    ELSE IF t[x][y] \notin {Floor, Stairs}
    THEN FALSE
    ELSE ~(\E i \in 1..Len(es) :
             es[i].x = x /\ es[i].y = y /\ es[i].blocks_movement)

\* Dungeon.is_level_exit
IsLevelExit(t, x, y) ==
    IF ~(0 <= x /\ x < GridWidth(t) /\ 0 <= y /\ y < GridHeight(t))
    THEN FALSE
    ELSE t[x][y] = Stairs

(***************************************************************************)
(* MapGenerator: carving                                                   *)
(***************************************************************************)
\* MapGenerator._carve_room: the interior of the rectangle becomes Floor
CarveRoom(t, room) ==
    [x \in DOMAIN t |-> [y \in DOMAIN t[x] |->
        IF x \in (room.x1 + 1)..(room.x2 - 1) /\ y \in (room.y1 + 1)..(room.y2 - 1)
        THEN Floor ELSE t[x][y]]]

\* A slip: range(x1, x2 + 1) without min and max carves nothing when the
\* tunnel runs from right to left.
CarveHTunnelNoSwap(t, x1, x2, y) ==
    [x \in DOMAIN t |-> [yy \in DOMAIN t[x] |->
        IF yy = y /\ x \in x1..x2
        THEN Floor ELSE t[x][yy]]]

\* MapGenerator._carve_h_tunnel
CarveHTunnel(t, x1, x2, y) ==
    [x \in DOMAIN t |-> [yy \in DOMAIN t[x] |->
        IF yy = y /\ x \in Min(x1, x2)..Max(x1, x2)
        THEN Floor ELSE t[x][yy]]]

\* A slip: range(y1, y2 + 1) without min and max carves nothing when the
\* tunnel runs upwards.
CarveVTunnelNoSwap(t, y1, y2, x) ==
    [xx \in DOMAIN t |-> [y \in DOMAIN t[xx] |->
        IF xx = x /\ y \in y1..y2
        THEN Floor ELSE t[xx][y]]]

\* MapGenerator._carve_v_tunnel
CarveVTunnel(t, y1, y2, x) ==
    [xx \in DOMAIN t |-> [y \in DOMAIN t[xx] |->
        IF xx = x /\ y \in Min(y1, y2)..Max(y1, y2)
        THEN Floor ELSE t[xx][y]]]

\* The L-shaped tunnel between two points: horizontal first (at the first
\* point's row, then vertical at the second point's column) or vertical first.
CarveL(t, from, to, hfirst) ==
    IF hfirst
    THEN CarveVTunnel(CarveHTunnel(t, from[1], to[1], from[2]),
                      from[2], to[2], to[1])
    ELSE CarveHTunnel(CarveVTunnel(t, from[2], to[2], from[1]),
                      from[1], to[1], to[2])

\* MapGenerator._create_direct_path
CreateDirectPath(t, start, end) ==
    CarveVTunnel(CarveHTunnel(t, start[1], end[1], start[2]),
                 start[2], end[2], end[1])

(***************************************************************************)
(* Breadth-first search: MapGenerator._verify_path and Game._verify_path   *)
(* (the same code twice).                                                  *)
(***************************************************************************)
\* directions = [(0, -1), (1, 0), (0, 1), (-1, 0)]
Directions == << <<0, -1>>, <<1, 0>>, <<0, 1>>, <<-1, 0>> >>

RECURSIVE BFSLoop(_, _, _, _, _)
\* the while loop of _verify_path: queue is the deque, visited the set
BFSLoop(t, es, queue, visited, end) ==
    IF queue = <<>>
    THEN FALSE
    ELSE LET current == Head(queue)
             rest == Tail(queue)
         IN  IF current = end
             THEN TRUE
             ELSE IF current \in visited
             THEN BFSLoop(t, es, rest, visited, end)
             ELSE LET seen == visited \cup {current}
                      nexts == [i \in 1..4 |->
                                 <<current[1] + Directions[i][1],
                                   current[2] + Directions[i][2]>>]
                      ok(p) == IsWalkable(t, es, p[1], p[2]) /\ p \notin seen
                  IN  BFSLoop(t, es, rest \o SelectSeq(nexts, ok), seen, end)

\* _verify_path(start, end)
VerifyPath(t, es, start, end) == BFSLoop(t, es, <<start>>, {}, end)

(***************************************************************************)
(* MapGenerator.generate_dungeon                                           *)
(***************************************************************************)
\* A slip: x drawn up to width-w and y up to height-h, so that a room can
\* end on the last column or row of the grid.
CandidatesToEdge ==
    { Room(q[3], q[4], q[3] + q[1], q[4] + q[2]) :
        q \in { q \in (MinRoomSize..MaxRoomSize) \X (MinRoomSize..MaxRoomSize)
                      \X (1..width) \X (1..height) :
                  q[3] <= width - q[1] /\ q[4] <= height - q[2] } }

\* The candidate rooms one iteration can draw: w, h from the room sizes,
\* x from 1..width-w-1, y from 1..height-h-1.
Candidates ==
    { Room(q[3], q[4], q[3] + q[1], q[4] + q[2]) :
        q \in { q \in (MinRoomSize..MaxRoomSize) \X (MinRoomSize..MaxRoomSize)
                      \X (1..width) \X (1..height) :
                  q[3] <= width - q[1] - 1 /\ q[4] <= height - q[2] - 1 } }

\* The draws made when a room is accepted as number n (0-based): the order
\* of the tunnel to the previous room and, for n > 1, the optional extra
\* tunnel (20% chance) to a random earlier room, with its own order.
\* extra = -1: no extra tunnel.
TunnelDraws(n) ==
    IF n = 0 THEN { [hfirst |-> TRUE, extra |-> -1, xhfirst |-> TRUE] }
    ELSE { [hfirst |-> hf, extra |-> -1, xhfirst |-> TRUE] : hf \in BOOLEAN }
         \cup (IF n > 1
               THEN { [hfirst |-> hf, extra |-> e, xhfirst |-> xf] :
                        hf \in BOOLEAN, e \in 0..(n - 1), xf \in BOOLEAN }
               ELSE {})

\* The body of the for-else: carve the accepted room and its tunnels.
AcceptRoom(t, rs, new_room, d) ==
    LET num_rooms == Len(rs)
        t1 == CarveRoom(t, new_room)
        t2 == IF num_rooms > 0
              THEN CarveL(t1, Center(rs[num_rooms]), Center(new_room), d.hfirst)
              ELSE t1
    IN  IF num_rooms > 1 /\ d.extra >= 0
        THEN CarveL(t2, Center(new_room), Center(rs[d.extra + 1]), d.xhfirst)
        ELSE t2

\* One iteration of "for r in range(self.max_rooms)".
AttemptRoom ==
    /\ pc = "rooms"
    /\ r < max_rooms
    /\ \E new_room \in Candidates :
         IF \E i \in 1..Len(rooms) : Intersects(new_room, rooms[i])
         THEN /\ r' = r + 1
              /\ UNCHANGED <<tiles, rooms>>
         ELSE \E d \in TunnelDraws(Len(rooms)) :
                /\ tiles' = AcceptRoom(tiles, rooms, new_room, d)
                /\ rooms' = Append(rooms, new_room)
                /\ r' = r + 1
    /\ UNCHANGED <<width, height, max_rooms, pc>>
    /\ UNCHANGED <<entVars, gameVars, talkVars, call>>
    /\ UNCHANGED charVars

\* A slip: the forced path carved whether or not the check found a path; its
\* vertical run ends on the stairs and turns them into Floor.
WithStairsAlwaysRepairs(t, rs) ==
    IF rs = <<>> THEN t
    ELSE LET s == Center(rs[Len(rs)])
             t1 == SetTile(t, s[1], s[2], Stairs)
         IN  CreateDirectPath(t1, Center(rs[1]), s)

\* The end of generate_dungeon: the stairs in the last room, the check of
\* the path from the first room and the forced path when there is none.
WithStairs(t, rs) ==
    IF rs = <<>> THEN t
    ELSE LET s == Center(rs[Len(rs)])
             t1 == SetTile(t, s[1], s[2], Stairs)
         IN  IF ~VerifyPath(t1, <<>>, Center(rs[1]), s)
             THEN CreateDirectPath(t1, Center(rs[1]), s)
             ELSE t1

PlaceStairs ==
    /\ pc = "rooms"
    /\ r = max_rooms
    /\ tiles' = WithStairs(tiles, rooms)
    /\ pc' = "generated"
    /\ UNCHANGED <<width, height, max_rooms, rooms, r>>
    /\ UNCHANGED <<entVars, gameVars, talkVars, call>>
    /\ UNCHANGED charVars

(***************************************************************************)
(* Values of the parts of the state a specification does not use.          *)
(***************************************************************************)
NoEntities ==
    /\ entities = <<>>
    /\ npcs = <<>>
    /\ enemies = <<>>
    /\ ent = <<>>
    /\ todo = [npcs |-> 0, enemies |-> 0]
    /\ cap = [npcs |-> 0, enemies |-> 0]

NoGame ==
    /\ player = [x |-> 1, y |-> 1, hp |-> 100, attack |-> 10]
    /\ current_level = 0
    /\ game_log = <<>>
    /\ running = FALSE
    /\ steps = 0

NoTalk ==
    /\ history = <<>>
    /\ max_history_length = 10
    /\ talks = 0

NoCall == call = [op |-> "none"]

\* No character generator: the flags at their defaults, empty caches and no
\* file in game/data.
NoFile == [exists |-> FALSE]

NoChars ==
    /\ use_pregenerated = FALSE
    /\ save_generated = TRUE
    /\ npc_cache = <<>> /\ enemy_cache = <<>>
    /\ pregenerated_npcs = <<>> /\ pregenerated_enemies = <<>>
    /\ npc_file = NoFile /\ enemy_file = NoFile

(***************************************************************************)
(* SpecGen: MapGenerator(GenWidth, GenHeight).generate_dungeon()           *)
(***************************************************************************)
InitGen ==
    /\ width = GenWidth
    /\ height = GenHeight
    /\ max_rooms = GenMaxRooms
    /\ tiles = NewTiles(GenWidth, GenHeight)
    /\ rooms = <<>>
    /\ r = 0
    /\ pc = "rooms"
    /\ NoEntities /\ NoGame /\ NoTalk /\ NoCall /\ NoChars

NextGen == AttemptRoom \/ PlaceStairs

SpecGen == InitGen /\ [][NextGen]_vars

(***************************************************************************)
(* Reachability, stated independently of the breadth-first search: the     *)
(* least set of cells that holds S and every walkable 4-neighbour of one   *)
(* of its cells.                                                           *)
(***************************************************************************)
Neighbours(p) ==
    { <<p[1], p[2] - 1>>, <<p[1] + 1, p[2]>>, <<p[1], p[2] + 1>>, <<p[1] - 1, p[2]>> }

RECURSIVE ReachFrom(_, _, _)
ReachFrom(t, es, S) ==
    LET more == { q \in UNION { Neighbours(p) : p \in S } :
                    IsWalkable(t, es, q[1], q[2]) }
    IN  IF more \subseteq S THEN S ELSE ReachFrom(t, es, S \cup more)

\* The cells of grid t holding the tile value v.
CellsWith(t, v) ==
    { c \in (DOMAIN t) \X (0..(GridHeight(t) - 1)) : t[c[1]][c[2]] = v }

ExitTiles == CellsWith(tiles, Stairs)

\* The generator has returned a dungeon.
Generated == pc = "generated"

(***************************************************************************)
(* C1: in every dungeon returned by generate_dungeon with at least one     *)
(* accepted room, the first room's center is a walkable tile from which an *)
(* exit tile is reached over 4-adjacent walkable (Floor or Exit) tiles.    *)
(***************************************************************************)
C1_PathToExit ==
    (Generated /\ rooms # <<>>) =>
        LET c == Center(rooms[1])
        IN  /\ IsWalkable(tiles, <<>>, c[1], c[2])
            /\ ExitTiles # {}
            /\ ExitTiles \subseteq ReachFrom(tiles, <<>>, {c})

\* A dungeon of two rooms or more, whose exit is not the first room's center.
C1_Witness ==
    /\ Generated
    /\ Len(rooms) >= 2
    /\ Center(rooms[1]) \notin ExitTiles
    /\ ExitTiles # {}


(***************************************************************************)
(* Conversation memory: NPC.talk and NPC._trim_conversation_history.       *)
(* Enemy.talk and Enemy._trim_conversation_history are the same code.      *)
(* The k-th query and its response are the exchange Exchange(k); the text  *)
(* of the summary is left abstract.                                        *)
(***************************************************************************)
MaxHistory == 10
MaxTalks == 14

Exchange(k) == [query |-> k, response |-> k]

\* {"query": "*Earlier conversation*", "response": f"*Summary: {summary}*"}
SummaryExchange == [query |-> "*Earlier conversation*", response |-> "*Summary*"]

\* The values of N below 330 at which the double product N * 0.7 falls
\* just short of the integer 7N/10, so that int() truncates to one less.
FloatShort == {90, 170, 180}

\* keep_count = int(self.max_history_length * 0.7), for 0 <= n < 330
KeepCount(n) ==
    IF n \in FloatShort THEN (7 * n) \div 10 - 1 ELSE (7 * n) \div 10

\* h[-k:] for k >= 0: Python reads -0 as 0, so h[-0:] is all of h.
LastSlice(h, k) ==
    IF k = 0 \/ k >= Len(h) THEN h ELSE SubSeq(h, Len(h) - k + 1, Len(h))

\* _trim_conversation_history on history h with max_history_length n
TrimConversationHistory(h, n) ==
    IF Len(h) <= n
    THEN h
    ELSE LET keep_count == KeepCount(n)
             history_to_keep == LastSlice(h, keep_count)
         IN  IF Len(h) - keep_count > 2
             THEN <<SummaryExchange>> \o history_to_keep
             ELSE history_to_keep

\* talk(player_query) with a query, the completion call returning
Talk ==
    /\ pc = "talk"
    /\ talks < MaxTalks
    /\ talks' = talks + 1
    /\ LET h == Append(history, Exchange(talks + 1))
       IN  history' = IF Len(h) > max_history_length
                      THEN TrimConversationHistory(h, max_history_length)
                      ELSE h
    /\ UNCHANGED <<max_history_length, pc, call>>
    /\ UNCHANGED <<genVars, entVars, gameVars>>
    /\ UNCHANGED charVars

(***************************************************************************)
(* SpecTalk: one character with max_history_length N, talked to.           *)
(***************************************************************************)
InitTalk ==
    /\ pc = "talk"
    /\ max_history_length \in 1..MaxHistory
    /\ history = <<>>
    /\ talks = 0
    /\ width = 0 /\ height = 0 /\ max_rooms = 0
    /\ tiles = <<>> /\ rooms = <<>> /\ r = 0
    /\ NoEntities /\ NoGame /\ NoCall /\ NoChars

NextTalk == Talk

SpecTalk == InitTalk /\ [][NextTalk]_vars

(***************************************************************************)
(* C2: whatever the configured maximum N, the conversation history holds   *)
(* at most N exchanges after each talk(query) call.                        *)
(* Violated: with N = 1 keep_count is 0 and h[-0:] keeps everything.       *)
(***************************************************************************)
C2_HistoryBounded == Len(history) <= max_history_length

(***************************************************************************)
(* C3: when the append makes the history longer than N, the call leaves    *)
(* the most recent floor(0.7 N) exchanges, in order, preceded by one       *)
(* summary exchange if more than 2 older exchanges were discarded and by   *)
(* nothing otherwise; at most floor(0.7 N) + 1 exchanges stay.             *)
(* Violated for N = 1, where nothing is discarded.                         *)
(***************************************************************************)
C3_TrimKeepsRecent ==
    [][ (talks' = talks + 1 /\ Len(history) + 1 > max_history_length) =>
          LET h == Append(history, Exchange(talks'))
              k == (7 * max_history_length) \div 10
              recent == [i \in 1..k |-> h[Len(h) - k + i]]
          IN  /\ history' = IF Len(h) - k > 2
                            THEN <<SummaryExchange>> \o recent
                            ELSE recent
              /\ Len(history') <= k + 1 ]_vars


(***************************************************************************)
(* SpecRoom: Room.intersects called on pairs of test rooms.                *)
(***************************************************************************)
RoomCoordMax == 3

\* Rooms with 0 <= x1 < x2 <= RoomCoordMax and 0 <= y1 < y2 <= RoomCoordMax
TestRooms ==
    { Room(q[1], q[2], q[3], q[4]) :
        q \in { q \in (0..RoomCoordMax) \X (0..RoomCoordMax)
                      \X (0..RoomCoordMax) \X (0..RoomCoordMax) :
                  q[1] < q[3] /\ q[2] < q[4] } }

\* a.intersects(b), and b.intersects(a) for comparison
IntersectsCall ==
    /\ pc = "rooms_test"
    /\ call.op = "none"
    /\ \E a \in TestRooms, b \in TestRooms :
         call' = [op |-> "intersects", a |-> a, b |-> b,
                  ret |-> Intersects(a, b), rev |-> Intersects(b, a)]
    /\ UNCHANGED <<pc, genVars, entVars, gameVars, talkVars>>
    /\ UNCHANGED charVars

InitRoom ==
    /\ pc = "rooms_test"
    /\ width = 0 /\ height = 0 /\ max_rooms = 0
    /\ tiles = <<>> /\ rooms = <<>> /\ r = 0
    /\ NoEntities /\ NoGame /\ NoTalk /\ NoCall /\ NoChars

NextRoom == IntersectsCall

SpecRoom == InitRoom /\ [][NextRoom]_vars

\* The closed rectangles of a and b have a point in common.
SharePoint(a, b) ==
    \E x \in (a.x1)..(a.x2), y \in (a.y1)..(a.y2) :
        x \in (b.x1)..(b.x2) /\ y \in (b.y1)..(b.y2)

(***************************************************************************)
(* C8: Room.intersects is symmetric, a.intersects(b) = b.intersects(a),    *)
(* and it holds exactly of the rooms whose closed rectangles share a       *)
(* point, so rooms that share only an edge or a corner intersect.          *)
(***************************************************************************)
C8_IntersectsSymmetric ==
    call.op = "intersects" =>
        /\ call.ret = call.rev
        /\ call.ret = SharePoint(call.a, call.b)

\* Two rooms that share exactly one corner point, found to intersect.
C8_Witness ==
    /\ call.op = "intersects"
    /\ call.a.x2 = call.b.x1
    /\ call.a.y2 = call.b.y1
    /\ call.ret

(***************************************************************************)
(* SpecWalk: Dungeon.is_walkable queried on test grids.  The test grids    *)
(* hold any tile at any cell, and no entity or one entity, blocking or     *)
(* not, on one of its cells.                                               *)
(***************************************************************************)
WalkWidth == 2
WalkHeight == 1

\* dungeon.is_walkable(x, y)
IsWalkableCall ==
    /\ pc = "walk_test"
    /\ call.op = "none"
    /\ \E x \in (-1)..width, y \in (-1)..height :
         call' = [op |-> "is_walkable", x |-> x, y |-> y,
                  ret |-> IsWalkable(tiles, Objs(entities, ent), x, y)]
    /\ UNCHANGED <<pc, genVars, entVars, gameVars, talkVars>>
    /\ UNCHANGED charVars

InitWalk ==
    /\ pc = "walk_test"
    /\ width = WalkWidth /\ height = WalkHeight /\ max_rooms = 0
    /\ tiles \in [0..(WalkWidth - 1) ->
                    [0..(WalkHeight - 1) -> {Wall, Floor, Stairs}]]
    /\ rooms = <<>> /\ r = 0
    /\ \/ entities = <<>> /\ ent = <<>>
       \/ /\ entities = <<1>>
          /\ \E x \in 0..(WalkWidth - 1), y \in 0..(WalkHeight - 1),
                b \in BOOLEAN :
               ent = <<Entity("generic", x, y, b, 0, 0)>>
    /\ npcs = <<>> /\ enemies = <<>>
    /\ todo = [npcs |-> 0, enemies |-> 0]
    /\ cap = [npcs |-> 0, enemies |-> 0]
    /\ NoGame /\ NoTalk /\ NoCall /\ NoChars

NextWalk == IsWalkableCall

SpecWalk == InitWalk /\ [][NextWalk]_vars

\* A blocking entity of the dungeon's entity list stands on (x, y).
Blocked(x, y) ==
    \E i \in 1..Len(entities) :
        /\ ent[entities[i]].x = x
        /\ ent[entities[i]].y = y
        /\ ent[entities[i]].blocks_movement

(***************************************************************************)
(* C7: is_walkable(x, y) is true exactly when (x, y) lies in               *)
(* [0, width) x [0, height), the tile there is Floor or Exit and no        *)
(* blocking entity stands on it; it is false outside the grid, negative    *)
(* coordinates included.                                                   *)
(***************************************************************************)
C7_IsWalkable ==
    call.op = "is_walkable" =>
        LET inside == /\ 0 <= call.x /\ call.x < width
                      /\ 0 <= call.y /\ call.y < height
        IN  call.ret = (/\ inside
                        /\ tiles[call.x][call.y] \in {Floor, Stairs}
                        /\ ~Blocked(call.x, call.y))

\* A query with a negative coordinate on a grid whose far column is
\* walkable, answered false.
C7_Witness ==
    /\ call.op = "is_walkable"
    /\ call.x = -1 /\ call.y = 0
    /\ tiles[width - 1][0] = Floor
    /\ ~call.ret


(***************************************************************************)
(* Dungeon.populate_entities and Dungeon.remove_entity                     *)
(***************************************************************************)
\* NPC.__init__ as called by NPCGenerator: an NPC blocks movement
NewNpc(level, x, y) == Entity("npc", x, y, TRUE, 0, 0)

\* Enemy.__init__ with the generator's default stats, hp 10 + 5 * level and
\* attack 5 + level (NPCGenerator._create_default_enemy)
NewEnemy(level, x, y) == Entity("enemy", x, y, TRUE, 10 + level * 5, 5 + level)

\* The scan for the stairs, x outermost: the first cell holding Stairs, or
\* <<>> for None.
StairsPos(t) ==
    LET S == CellsWith(t, Stairs)
    IN  IF S = {} THEN <<>>
        ELSE CHOOSE c \in S :
               \A d \in S : c[1] < d[1] \/ (c[1] = d[1] /\ c[2] <= d[2])

\* Dungeon.is_position_clear
IsPositionClear(es, x, y) ==
    \A i \in 1..Len(es) : ~(es[i].x = x /\ es[i].y = y)

\* A slip: > 1 in place of > 2.
FarFromStairsOffByOne(stairs_pos, x, y) ==
    \/ stairs_pos = <<>>
    \/ Abs(x - stairs_pos[1]) > 1
    \/ Abs(y - stairs_pos[2]) > 1

\* "stairs_pos is None or abs(x - stairs_pos[0]) > 2 or abs(y - stairs_pos[1]) > 2"
FarFromStairs(stairs_pos, x, y) ==
    \/ stairs_pos = <<>>
    \/ Abs(x - stairs_pos[1]) > 2
    \/ Abs(y - stairs_pos[2]) > 2

\* The positions the inner "while True" of populate_entities can leave
\* with: get_random_floor_tile draws x from 1..width-2 and y from
\* 1..height-2 until the tile is walkable, and the loop repeats until the
\* position is clear and far from the stairs.  With no such position the
\* loop does not end.
Spots(t, es) ==
    { p \in (1..(GridWidth(t) - 2)) \X (1..(GridHeight(t) - 2)) :
        /\ IsWalkable(t, es, p[1], p[2])
        /\ IsPositionClear(es, p[1], p[2])
        /\ FarFromStairs(StairsPos(t), p[1], p[2]) }

\* A slip: random.randint(0, 3)
NpcDrawsFromZero == { n \in 0..3 : n <= cap.npcs }

\* num_npcs = random.randint(1, 3)
NpcDraws == { n \in 1..3 : n <= cap.npcs }

\* num_enemies = random.randint(2, 5 + level)
EnemyDraws(level) == { m \in 2..(5 + level) : m <= cap.enemies }

\* One iteration of the NPC loop.
PlaceNpc ==
    /\ pc = "npcs"
    /\ todo.npcs > 0
    /\ \E p \in Spots(tiles, Objs(entities, ent)) :
         LET id == Len(ent) + 1
         IN  /\ ent' = Append(ent, NewNpc(current_level, p[1], p[2]))
             /\ entities' = Append(entities, id)
             /\ npcs' = Append(npcs, id)
    /\ todo' = [todo EXCEPT !.npcs = @ - 1]
    /\ UNCHANGED <<pc, enemies, cap, genVars, gameVars, talkVars, call>>
    /\ UNCHANGED charVars

\* The NPC loop is over: the number of enemies is drawn.
DrawEnemies ==
    /\ pc = "npcs"
    /\ todo.npcs = 0
    /\ \E m \in EnemyDraws(current_level) : todo' = [todo EXCEPT !.enemies = m]
    /\ pc' = "enemies"
    /\ UNCHANGED <<entities, npcs, enemies, ent, cap>>
    /\ UNCHANGED <<genVars, gameVars, talkVars, call>>
    /\ UNCHANGED charVars

\* One iteration of the enemy loop.
PlaceEnemy ==
    /\ pc = "enemies"
    /\ todo.enemies > 0
    /\ \E p \in Spots(tiles, Objs(entities, ent)) :
         LET id == Len(ent) + 1
         IN  /\ ent' = Append(ent, NewEnemy(current_level, p[1], p[2]))
             /\ entities' = Append(entities, id)
             /\ enemies' = Append(enemies, id)
    /\ todo' = [todo EXCEPT !.enemies = @ - 1]
    /\ UNCHANGED <<pc, npcs, cap, genVars, gameVars, talkVars, call>>
    /\ UNCHANGED charVars

\* list.remove(v): the first occurrence goes
RECURSIVE RemoveFirst(_, _)
RemoveFirst(seq, v) ==
    IF seq = <<>> THEN <<>>
    ELSE IF Head(seq) = v THEN Tail(seq)
    ELSE <<Head(seq)>> \o RemoveFirst(Tail(seq), v)

InSeq(seq, v) == \E i \in 1..Len(seq) : seq[i] = v

\* A slip: the kind-specific lists are left alone.
RemoveEntityOnlyAll(lists, type, e) ==
    [lists EXCEPT !.entities = IF InSeq(@, e) THEN RemoveFirst(@, e) ELSE @]

\* Dungeon.remove_entity on the three lists, for entity e of the given type
RemoveEntity(lists, type, e) ==
    LET l1 == [lists EXCEPT
                 !.entities = IF InSeq(@, e) THEN RemoveFirst(@, e) ELSE @]
    IN  IF type = "npc" /\ InSeq(l1.npcs, e)
        THEN [l1 EXCEPT !.npcs = RemoveFirst(@, e)]
        ELSE IF type = "enemy" /\ InSeq(l1.enemies, e)
        THEN [l1 EXCEPT !.enemies = RemoveFirst(@, e)]
        ELSE l1

(***************************************************************************)
(* SpecDungeon: populate_entities and remove_entity called in any order on *)
(* a test dungeon, a corridor of floor tiles with or without stairs.       *)
(***************************************************************************)
CorridorLen == 5
MaxLevel == 1

\* A grid of height 3 whose middle row is Floor from x = 1 to x = len, with
\* Stairs at x = s when s > 0.
Corridor(len, s) ==
    [x \in 0..(len + 1) |-> [y \in 0..2 |->
        IF y = 1 /\ x \in 1..len
        THEN (IF x = s THEN Stairs ELSE Floor)
        ELSE Wall]]

\* "self.entities = []; self.npcs = []; self.enemies = []"
ClearedLists(lists) == [entities |-> <<>>, npcs |-> <<>>, enemies |-> <<>>]

\* populate_entities(npc_generator, level) is called: the lists are
\* emptied, the stairs looked for and the number of NPCs drawn.  The
\* objects of the emptied lists are no longer referred to.
DungeonPopulate ==
    /\ pc \in {"idle", "populated"}
    /\ \E level \in 0..MaxLevel : current_level' = level
    /\ LET l == ClearedLists([entities |-> entities, npcs |-> npcs,
                              enemies |-> enemies])
       IN  /\ entities' = l.entities
           /\ npcs' = l.npcs
           /\ enemies' = l.enemies
    /\ ent' = <<>>
    /\ \E n \in NpcDraws : todo' = [npcs |-> n, enemies |-> 0]
    /\ pc' = "npcs"
    /\ UNCHANGED <<cap, genVars, player, game_log, talkVars, call>>
    /\ UNCHANGED <<charVars, running, steps>>

\* populate_entities returns.
PopulateReturn ==
    /\ pc = "enemies"
    /\ todo.enemies = 0
    /\ pc' = "populated"
    /\ UNCHANGED <<genVars, entVars, gameVars, talkVars, call>>
    /\ UNCHANGED charVars

\* remove_entity(e) for an entity object e made by the last populate,
\* whether still in the lists or not.
DungeonRemove ==
    /\ pc \in {"idle", "populated"}
    /\ \E e \in 1..Len(ent) :
         LET l == RemoveEntity([entities |-> entities, npcs |-> npcs,
                                enemies |-> enemies], ent[e].entity_type, e)
         IN  /\ entities' = l.entities
             /\ npcs' = l.npcs
             /\ enemies' = l.enemies
    /\ pc' = "idle"
    /\ UNCHANGED <<ent, todo, cap, genVars, gameVars, talkVars, call>>
    /\ UNCHANGED charVars

InitDungeon ==
    /\ pc = "idle"
    /\ width = CorridorLen + 2 /\ height = 3 /\ max_rooms = 0
    /\ \E s \in 0..CorridorLen : tiles = Corridor(CorridorLen, s)
    /\ rooms = <<>> /\ r = 0
    /\ entities = <<>> /\ npcs = <<>> /\ enemies = <<>> /\ ent = <<>>
    /\ todo = [npcs |-> 0, enemies |-> 0]
    /\ cap = [npcs |-> 3, enemies |-> 5 + MaxLevel]
    /\ NoGame /\ NoTalk /\ NoCall /\ NoChars

NextDungeon ==
    \/ DungeonPopulate
    \/ PlaceNpc
    \/ DrawEnemies
    \/ PlaceEnemy
    \/ PopulateReturn
    \/ DungeonRemove

SpecDungeon == InitDungeon /\ [][NextDungeon]_vars


\* The three lists agree: the members of npcs and of enemies are members of
\* entities, every member of entities is in the one list of its
\* entity_type and not in the other, and no list holds an entity twice.
NoRepeats(seq) == \A i, j \in 1..Len(seq) : seq[i] = seq[j] => i = j

ListsPartition ==
    /\ \A i \in 1..Len(npcs) : InSeq(entities, npcs[i])
    /\ \A i \in 1..Len(enemies) : InSeq(entities, enemies[i])
    /\ \A i \in 1..Len(entities) :
         LET e == entities[i]
         IN  /\ ent[e].entity_type \in {"npc", "enemy"}
             /\ InSeq(npcs, e) <=> ent[e].entity_type = "npc"
             /\ InSeq(enemies, e) <=> ent[e].entity_type = "enemy"
    /\ NoRepeats(entities) /\ NoRepeats(npcs) /\ NoRepeats(enemies)

(***************************************************************************)
(* C6: after any sequence of populate_entities and remove_entity calls the *)
(* all-entities list is the disjoint union of the npc list and the enemy   *)
(* list, by entity_type, and no entity appears twice.                      *)
(***************************************************************************)
C6_ListsPartition == pc \in {"idle", "populated"} => ListsPartition

\* After a removal, with an NPC and an enemy left and one entity gone.
C6_Witness ==
    /\ pc = "idle"
    /\ Len(npcs) >= 1
    /\ Len(enemies) >= 1
    /\ Len(entities) < Len(ent)

(***************************************************************************)
(* C9, as claimed: populate_entities places 1 to 2 NPCs and exactly        *)
(* 3 + level div 2 enemies.                                                *)
(***************************************************************************)
C9_Original ==
    pc = "populated" =>
        /\ Len(npcs) \in 1..2
        /\ Len(enemies) = 3 + (current_level \div 2)

(***************************************************************************)
(* C9, amended: when populate_entities(generator, level) returns, the      *)
(* lists hold the characters it placed and no others, between 1 and 3 NPCs *)
(* followed by between 2 and 5 + level enemies.                            *)
(***************************************************************************)
C9_PopulateCounts ==
    pc = "populated" =>
        /\ Len(npcs) \in 1..3
        /\ Len(enemies) \in 2..(5 + current_level)
        /\ entities = npcs \o enemies
        /\ \A i \in 1..Len(npcs) : ent[npcs[i]].entity_type = "npc"
        /\ \A i \in 1..Len(enemies) : ent[enemies[i]].entity_type = "enemy"

\* populate_entities has returned with 3 NPCs placed.
C9_Witness ==
    /\ pc = "populated"
    /\ Len(npcs) = 3
    /\ Len(enemies) = 2


(***************************************************************************)
(* Game._generate_new_level                                                *)
(***************************************************************************)
NpcCap == 1
EnemyCap == 2

\* Game.max_log_size
MaxLogSize == 100

\* Game.add_to_log
AddToLog(log, message) ==
    LET l == Append(log, message)
    IN  IF Len(l) > MaxLogSize THEN Tail(l) ELSE l

\* Game._create_direct_path: the two loops, written out in the engine
GameCreateDirectPath(t, start, end) ==
    LET t1 == [x \in DOMAIN t |-> [y \in DOMAIN t[x] |->
                 IF y = start[2] /\ x \in Min(start[1], end[1])..Max(start[1], end[1])
                 THEN Floor ELSE t[x][y]]]
    IN  [x \in DOMAIN t1 |-> [y \in DOMAIN t1[x] |->
           IF x = end[1] /\ y \in Min(start[2], end[2])..Max(start[2], end[2])
           THEN Floor ELSE t1[x][y]]]

\* _generate_new_level after generate_dungeon has returned: the player is
\* put at the first room's center, and populate_entities is entered (the
\* lists emptied, the number of NPCs drawn).  The first candidate room is
\* always accepted, so the fallback for a dungeon without rooms is not
\* reached.
LevelPopulate ==
    /\ pc = "generated"
    /\ rooms # <<>>
    /\ player' = [player EXCEPT !.x = Center(rooms[1])[1],
                                !.y = Center(rooms[1])[2]]
    /\ LET l == ClearedLists([entities |-> entities, npcs |-> npcs,
                              enemies |-> enemies])
       IN  /\ entities' = l.entities
           /\ npcs' = l.npcs
           /\ enemies' = l.enemies
    /\ ent' = <<>>
    /\ \E n \in NpcDraws : todo' = [npcs |-> n, enemies |-> 0]
    /\ pc' = "npcs"
    /\ UNCHANGED <<cap, genVars, current_level, game_log, talkVars, call>>
    /\ UNCHANGED <<charVars, running, steps>>

\* populate_entities has returned: the stairs are looked for, the path from
\* the player to them is checked with the entities in place, and a direct
\* path is carved when there is none.
FinishLevel ==
    /\ pc = "enemies"
    /\ todo.enemies = 0
    /\ LET stairs_pos == StairsPos(tiles)
           start == <<player.x, player.y>>
       IN  IF stairs_pos = <<>>
           THEN UNCHANGED <<tiles, game_log>>
           ELSE IF ~VerifyPath(tiles, Objs(entities, ent), start, stairs_pos)
           THEN /\ tiles' = GameCreateDirectPath(tiles, start, stairs_pos)
                /\ game_log' = AddToLog(game_log, "Emergency path to stairs created!")
           ELSE /\ tiles' = tiles
                /\ game_log' = AddToLog(game_log, "Level " \o ToString(current_level)
                                              \o " generated with valid path to exit.")
    /\ pc' = "play"
    /\ UNCHANGED <<width, height, max_rooms, rooms, r>>
    /\ UNCHANGED <<entVars, player, current_level, talkVars, call>>
    /\ UNCHANGED <<charVars, running, steps>>

(***************************************************************************)
(* Spec: Game.setup on a LevelWidth x LevelHeight grid: the player is      *)
(* created and the first level generated.                                  *)
(***************************************************************************)
Init ==
    /\ width = LevelWidth
    /\ height = LevelHeight
    /\ max_rooms = LevelMaxRooms
    /\ tiles = NewTiles(LevelWidth, LevelHeight)
    /\ rooms = <<>>
    /\ r = 0
    /\ pc = "rooms"
    /\ entities = <<>> /\ npcs = <<>> /\ enemies = <<>> /\ ent = <<>>
    /\ todo = [npcs |-> 0, enemies |-> 0]
    /\ cap = [npcs |-> NpcCap, enemies |-> EnemyCap]
    /\ NoGame /\ NoTalk /\ NoCall /\ NoChars

Next ==
    \/ AttemptRoom
    \/ PlaceStairs
    \/ LevelPopulate
    \/ PlaceNpc
    \/ DrawEnemies
    \/ PlaceEnemy
    \/ FinishLevel

Spec == Init /\ [][Next]_vars

(***************************************************************************)
(* C4: the force-path repair only turns Wall into Floor: every tile that   *)
(* was Floor or Exit before it has the same value after it.                *)
(* Violated: the repair of _generate_new_level ends on the exit tile and   *)
(* writes Floor over it.                                                   *)
(***************************************************************************)
C4_RepairKeepsTiles ==
    [][ (pc = "enemies" /\ pc' = "play") =>
          \A x \in DOMAIN tiles : \A y \in DOMAIN tiles[x] :
              tiles[x][y] \in {Floor, Stairs} => tiles'[x][y] = tiles[x][y] ]_vars

(***************************************************************************)
(* C5: in every state of a level whose generation accepted a room, from    *)
(* the return of generate_dungeon on, the grid holds exactly one Exit.     *)
(* Violated: see C4.                                                       *)
(***************************************************************************)
C5_OneExit ==
    (pc \in {"generated", "npcs", "enemies", "play"} /\ rooms # <<>>) =>
        Cardinality(ExitTiles) = 1

Cheb(p, q) == Max(Abs(p[1] - q[1]), Abs(p[2] - q[2]))

(***************************************************************************)
(* C10: every NPC and enemy placed by populate_entities stands on a Floor  *)
(* tile of the grid interior, at Chebyshev distance greater than 2 from    *)
(* the exit tile, and no two of them share a position.                     *)
(***************************************************************************)
C10_Placement ==
    pc \in {"npcs", "enemies"} =>
        /\ \A i \in 1..Len(entities) :
             LET e == ent[entities[i]]
             IN  /\ e.x \in 1..(width - 2)
                 /\ e.y \in 1..(height - 2)
                 /\ tiles[e.x][e.y] = Floor
                 /\ \A s \in ExitTiles : Cheb(<<e.x, e.y>>, s) > 2
        /\ \A i, j \in 1..Len(entities) :
             (ent[entities[i]].x = ent[entities[j]].x
                /\ ent[entities[i]].y = ent[entities[j]].y) => i = j

\* populate_entities is through, in a dungeon with an exit, one character
\* standing at distance 3 from it.
C10_Witness ==
    /\ pc = "enemies"
    /\ todo.enemies = 0
    /\ Len(entities) >= 3
    /\ \E s \in ExitTiles : \E i \in 1..Len(entities) :
         Cheb(<<ent[entities[i]].x, ent[entities[i]].y>>, s) = 3


(***************************************************************************)
(* NPCGenerator: descriptors, the completion's replies and _extract_json.  *)
(* A descriptor is the dict parsed from the reply: a function from field   *)
(* names to values, <<>> for {}.  A cache is a dict from keys to           *)
(* descriptors.  Names are tuples, <<text>> or <<text, level>> for the     *)
(* f-strings that end in the level.                                        *)
(***************************************************************************)
MaxKey == 2
MaxSteps == 3

\* The levels characters are generated for
CharLevels == {1, 10}

\* dict.get(f, default)
Get(d, f, default) == IF f \in DOMAIN d THEN d[f] ELSE default

\* d[k] = v
Put(d, k, v) == [x \in DOMAIN d \cup {k} |-> IF x = k THEN v ELSE d[x]]

\* cache_key = f"{kind}_level_{level}_{random.randint(1, 10000)}"
CacheKey(kind, level, n) == [kind |-> kind, level |-> level, n |-> n]

\* The decimal digits of a are the first digits of b.
RECURSIVE DecPrefix(_, _)
DecPrefix(a, b) == a = b \/ (b >= 10 /\ DecPrefix(a, b \div 10))

\* A slip: the level of the key is compared, not the prefix of the text.
StartsWithSameLevel(k, kind, level) == k.kind = kind /\ k.level = level

\* k.startswith(f"{kind}_level_{level}")
StartsWith(k, kind, level) == k.kind = kind /\ DecPrefix(level, k.level)

\* A reply text is a sequence of tokens: prose, braces and the members of
\* a JSON object.
Prose == [t |-> "prose"]
Open == [t |-> "{"]
Close == [t |-> "}"]
Members(d) == [t |-> "members", d |-> d]

\* text.find('{') and text.rfind('}'), 0-based, -1 when there is none
Find(text, tok) ==
    LET at == { i \in 1..Len(text) : text[i] = tok }
    IN  IF at = {} THEN -1 ELSE (CHOOSE i \in at : \A j \in at : i <= j) - 1

RFind(text, tok) ==
    LET at == { i \in 1..Len(text) : text[i] = tok }
    IN  IF at = {} THEN -1 ELSE (CHOOSE i \in at : \A j \in at : i >= j) - 1

\* json.loads(json_str): the object when the text is one JSON object,
\* JSONDecodeError otherwise
JsonLoads(json_str) ==
    IF json_str = <<Open, Close>>
    THEN [ok |-> TRUE, value |-> <<>>]
    ELSE IF Len(json_str) = 3 /\ json_str[1] = Open /\ json_str[3] = Close
            /\ json_str[2].t = "members"
    THEN [ok |-> TRUE, value |-> json_str[2].d]
    ELSE [ok |-> FALSE]

\* NPCGenerator._extract_json
ExtractJson(text) ==
    LET start_idx == Find(text, Open)
        end_idx == RFind(text, Close) + 1
    IN  IF start_idx >= 0 /\ end_idx > start_idx
        THEN LET loaded == JsonLoads(SubSeq(text, start_idx + 1, end_idx))
             IN  IF loaded.ok THEN loaded.value ELSE <<>>
        ELSE <<>>

\* NPC.__init__: the fields a descriptor decides
NPC(name, personality, dialogue, description) ==
    [entity_type |-> "npc", name |-> name,
     personality |-> IF personality = "" THEN "Neutral" ELSE personality,
     dialogue |-> IF dialogue = <<>> THEN <<"Hello, adventurer.">> ELSE dialogue,
     description |-> IF description = "" THEN "A mysterious figure." ELSE description]

\* Enemy.__init__
Enemy(name, hp, attack, behavior, personality, description) ==
    [entity_type |-> "enemy", name |-> name, hp |-> hp, max_hp |-> hp,
     attack |-> attack,
     behavior |-> IF behavior = "" THEN "aggressive" ELSE behavior,
     personality |-> IF personality = "" THEN "Hostile" ELSE personality,
     description |-> IF description = "" THEN "A menacing creature." ELSE description]

\* A slip: the personality is left for NPC.__init__ to default.
CreateNpcFromDataNoPersonality(npc_data, level) ==
    NPC(Get(npc_data, "name", <<"NPC Level", level>>),
        Get(npc_data, "personality", ""),
        Get(npc_data, "dialogue", <<"Hello, adventurer.">>),
        Get(npc_data, "description", "A mysterious figure."))

\* NPCGenerator._create_npc_from_data
CreateNpcFromData(npc_data, level) ==
    NPC(Get(npc_data, "name", <<"NPC Level", level>>),
        Get(npc_data, "personality", "Mysterious"),
        Get(npc_data, "dialogue", <<"Hello, adventurer.">>),
        Get(npc_data, "description", "A mysterious figure."))

\* A slip: the descriptor's hp is not read.
CreateEnemyFromDataLevelHp(enemy_data, level) ==
    Enemy(Get(enemy_data, "name", <<"Enemy Level", level>>),
          10 + level * 5,
          Get(enemy_data, "attack", 5 + level),
          Get(enemy_data, "behavior", "aggressive"),
          Get(enemy_data, "personality", "Hostile"),
          Get(enemy_data, "description", "A menacing creature."))

\* NPCGenerator._create_enemy_from_data
CreateEnemyFromData(enemy_data, level) ==
    Enemy(Get(enemy_data, "name", <<"Enemy Level", level>>),
          Get(enemy_data, "hp", 10 + level * 5),
          Get(enemy_data, "attack", 5 + level),
          Get(enemy_data, "behavior", "aggressive"),
          Get(enemy_data, "personality", "Hostile"),
          Get(enemy_data, "description", "A menacing creature."))

\* NPCGenerator._create_default_npc
CreateDefaultNpc(level) ==
    NPC(<<"Dungeon Dweller", level>>, "Mysterious",
        <<"Welcome, traveler.", "These dungeons hold many secrets.",
          "Be careful as you venture deeper.">>,
        "A cloaked figure with glowing eyes, watching you carefully.")

\* A slip: the default enemy gets the hp of level 0.
CreateDefaultEnemyFlatHp(level) ==
    Enemy(<<"Dungeon Monster", level>>, 10, 5 + level,
          "aggressive", "Hostile",
          "A terrifying creature with sharp claws and glowing red eyes.")

\* NPCGenerator._create_default_enemy
CreateDefaultEnemy(level) ==
    Enemy(<<"Dungeon Monster", level>>, 10 + level * 5, 5 + level,
          "aggressive", "Hostile",
          "A terrifying creature with sharp claws and glowing red eyes.")

\* Descriptors the completion can reply with: a full one, and one with an
\* empty personality (and behavior) and other fields missing.
NpcFull ==
    [name |-> <<"Zed">>, personality |-> "Wry", dialogue |-> <<"Hi.">>,
     description |-> "Tall."]
NpcSparse == [name |-> <<"Zed">>, personality |-> ""]
NpcData == {NpcFull, NpcSparse}

EnemyFull ==
    [name |-> <<"Grue">>, hp |-> 15, attack |-> 5, behavior |-> "sly",
     personality |-> "Cold", description |-> "Dark."]
EnemySparse == [hp |-> 15, attack |-> 100, behavior |-> "", personality |-> ""]
EnemyData == {EnemyFull, EnemySparse}

\* Reply texts: prose only; an object inside prose; braces around prose;
\* a closing brace before the only opening one; two objects in a row.
Texts(data) ==
    { <<Prose>>, <<Open, Prose, Close>>, <<Close, Open>> }
    \cup { <<Prose, Open, Members(d), Close, Prose>> : d \in data }
    \cup { <<Open, Members(d), Close, Open, Members(d), Close>> : d \in data }

\* claude37sonnet(prompt): raises, or returns a text
Replies(data) ==
    { [raises |-> TRUE, text |-> <<>>] }
    \cup { [raises |-> FALSE, text |-> x] : x \in Texts(data) }

\* A slip: the file is written also when the cache is empty.
SaveFileAlways(cache, file) == [exists |-> TRUE, data |-> cache]

\* A slip: the cache is merged into what the file holds.
SaveFileMerged(cache, file) ==
    IF cache # <<>>
    THEN [exists |-> TRUE,
          data |-> [k \in DOMAIN cache \cup
                          (IF file.exists THEN DOMAIN file.data ELSE {}) |->
                      IF k \in DOMAIN cache THEN cache[k] ELSE file.data[k]]]
    ELSE file

\* One of the two dumps of save_characters: "if cache: json.dump(cache, f)"
SaveFile(cache, file) ==
    IF cache # <<>> THEN [exists |-> TRUE, data |-> cache] ELSE file

\* One of the two loads of load_pregenerated_characters
LoadFile(file) == IF file.exists THEN file.data ELSE <<>>

\* What a generate call reports: whether the completion was called and
\* raised, the reply, the descriptor used and the character returned.
CallRecord(op, level, llm, reply, default, data, ret) ==
    [op |-> op, level |-> level, llm |-> llm, reply |-> reply,
     default |-> default, data |-> data, ret |-> ret]

NoReply == [raises |-> FALSE, text |-> <<>>]

\* NPCGenerator.generate_npc(level)
GenerateNpc ==
    /\ pc = "chars" /\ running
    /\ steps < MaxSteps
    /\ \E level \in CharLevels :
         LET level_npcs == { k \in DOMAIN pregenerated_npcs :
                               StartsWith(k, "npc", level) }
         IN  IF use_pregenerated /\ level_npcs # {}
             THEN \E cache_key \in level_npcs :
                    LET npc_data == pregenerated_npcs[cache_key]
                    IN  /\ call' = CallRecord("generate_npc", level, FALSE, NoReply,
                                     FALSE, npc_data, CreateNpcFromData(npc_data, level))
                        /\ UNCHANGED <<npc_cache, npc_file, enemy_file>>
             ELSE \E n \in 1..MaxKey :
                    LET cache_key == CacheKey("npc", level, n)
                    IN  IF cache_key \in DOMAIN npc_cache
                        THEN /\ call' = CallRecord("generate_npc", level, FALSE, NoReply,
                                          FALSE, npc_cache[cache_key],
                                          CreateNpcFromData(npc_cache[cache_key], level))
                             /\ UNCHANGED <<npc_cache, npc_file, enemy_file>>
                        ELSE \E reply \in Replies(NpcData) :
                               IF reply.raises
                               THEN /\ call' = CallRecord("generate_npc", level, TRUE, reply,
                                                 TRUE, <<>>, CreateDefaultNpc(level))
                                    /\ UNCHANGED <<npc_cache, npc_file, enemy_file>>
                               ELSE LET npc_data == ExtractJson(reply.text)
                                        cache1 == Put(npc_cache, cache_key, npc_data)
                                    IN  /\ npc_cache' = cache1
                                        /\ npc_file' = IF save_generated
                                                       THEN SaveFile(cache1, npc_file)
                                                       ELSE npc_file
                                        /\ enemy_file' = IF save_generated
                                                         THEN SaveFile(enemy_cache, enemy_file)
                                                         ELSE enemy_file
                                        /\ call' = CallRecord("generate_npc", level, TRUE, reply,
                                                     FALSE, npc_data,
                                                     CreateNpcFromData(npc_data, level))
    /\ steps' = steps + 1
    /\ UNCHANGED <<use_pregenerated, save_generated, enemy_cache,
                   pregenerated_npcs, pregenerated_enemies>>
    /\ UNCHANGED <<pc, genVars, entVars, talkVars>>
    /\ UNCHANGED <<player, current_level, game_log, running>>

\* NPCGenerator.generate_enemy(level)
GenerateEnemy ==
    /\ pc = "chars" /\ running
    /\ steps < MaxSteps
    /\ \E level \in CharLevels :
         LET level_enemies == { k \in DOMAIN pregenerated_enemies :
                                  StartsWith(k, "enemy", level) }
         IN  IF use_pregenerated /\ level_enemies # {}
             THEN \E cache_key \in level_enemies :
                    LET enemy_data == pregenerated_enemies[cache_key]
                    IN  /\ call' = CallRecord("generate_enemy", level, FALSE, NoReply,
                                     FALSE, enemy_data,
                                     CreateEnemyFromData(enemy_data, level))
                        /\ UNCHANGED <<enemy_cache, npc_file, enemy_file>>
             ELSE \E n \in 1..MaxKey :
                    LET cache_key == CacheKey("enemy", level, n)
                    IN  IF cache_key \in DOMAIN enemy_cache
                        THEN /\ call' = CallRecord("generate_enemy", level, FALSE, NoReply,
                                          FALSE, enemy_cache[cache_key],
                                          CreateEnemyFromData(enemy_cache[cache_key], level))
                             /\ UNCHANGED <<enemy_cache, npc_file, enemy_file>>
                        ELSE \E reply \in Replies(EnemyData) :
                               IF reply.raises
                               THEN /\ call' = CallRecord("generate_enemy", level, TRUE, reply,
                                                 TRUE, <<>>, CreateDefaultEnemy(level))
                                    /\ UNCHANGED <<enemy_cache, npc_file, enemy_file>>
                               ELSE LET enemy_data == ExtractJson(reply.text)
                                        cache1 == Put(enemy_cache, cache_key, enemy_data)
                                    IN  /\ enemy_cache' = cache1
                                        /\ npc_file' = IF save_generated
                                                       THEN SaveFile(npc_cache, npc_file)
                                                       ELSE npc_file
                                        /\ enemy_file' = IF save_generated
                                                         THEN SaveFile(cache1, enemy_file)
                                                         ELSE enemy_file
                                        /\ call' = CallRecord("generate_enemy", level, TRUE, reply,
                                                     FALSE, enemy_data,
                                                     CreateEnemyFromData(enemy_data, level))
    /\ steps' = steps + 1
    /\ UNCHANGED <<use_pregenerated, save_generated, npc_cache,
                   pregenerated_npcs, pregenerated_enemies>>
    /\ UNCHANGED <<pc, genVars, entVars, talkVars>>
    /\ UNCHANGED <<player, current_level, game_log, running>>

\* NPCGenerator.save_characters(), called directly
SaveCharacters ==
    /\ pc = "chars" /\ running
    /\ steps < MaxSteps
    /\ npc_file' = SaveFile(npc_cache, npc_file)
    /\ enemy_file' = SaveFile(enemy_cache, enemy_file)
    /\ call' = [op |-> "save_characters"]
    /\ steps' = steps + 1
    /\ UNCHANGED <<use_pregenerated, save_generated, npc_cache, enemy_cache,
                   pregenerated_npcs, pregenerated_enemies>>
    /\ UNCHANGED <<pc, genVars, entVars, talkVars>>
    /\ UNCHANGED <<player, current_level, game_log, running>>

\* Game.handle_input('s'): the manual save
KeySave ==
    /\ running
    /\ steps < MaxSteps
    /\ IF save_generated
       THEN /\ npc_file' = SaveFile(npc_cache, npc_file)
            /\ enemy_file' = SaveFile(enemy_cache, enemy_file)
            /\ game_log' = AddToLog(game_log, "Characters saved to files.")
       ELSE /\ UNCHANGED <<npc_file, enemy_file>>
            /\ game_log' = AddToLog(game_log, "Character saving is not enabled.")
    /\ call' = [op |-> "handle_input", key |-> "s"]
    /\ steps' = steps + 1
    /\ UNCHANGED <<use_pregenerated, save_generated, npc_cache, enemy_cache,
                   pregenerated_npcs, pregenerated_enemies>>
    /\ UNCHANGED <<pc, genVars, entVars, talkVars>>
    /\ UNCHANGED <<player, current_level, running>>

\* A slip: the last save is made whatever the flag.
KeyQuitAlwaysSaves ==
    /\ running
    /\ steps < MaxSteps
    /\ npc_file' = SaveFile(npc_cache, npc_file)
    /\ enemy_file' = SaveFile(enemy_cache, enemy_file)
    /\ running' = FALSE
    /\ call' = [op |-> "handle_input", key |-> "q"]
    /\ steps' = steps + 1
    /\ UNCHANGED <<use_pregenerated, save_generated, npc_cache, enemy_cache,
                   pregenerated_npcs, pregenerated_enemies>>
    /\ UNCHANGED <<pc, genVars, entVars, talkVars>>
    /\ UNCHANGED <<player, current_level, game_log>>

\* Game.handle_input('q'): a last save when saving is on, then the loop ends
KeyQuit ==
    /\ running
    /\ steps < MaxSteps
    /\ IF save_generated
       THEN /\ npc_file' = SaveFile(npc_cache, npc_file)
            /\ enemy_file' = SaveFile(enemy_cache, enemy_file)
       ELSE UNCHANGED <<npc_file, enemy_file>>
    /\ running' = FALSE
    /\ call' = [op |-> "handle_input", key |-> "q"]
    /\ steps' = steps + 1
    /\ UNCHANGED <<use_pregenerated, save_generated, npc_cache, enemy_cache,
                   pregenerated_npcs, pregenerated_enemies>>
    /\ UNCHANGED <<pc, genVars, entVars, talkVars>>
    /\ UNCHANGED <<player, current_level, game_log>>

\* A new session: Game.__init__ makes NPCGenerator(use_pregenerated,
\* save_generated), which starts with empty caches and loads the two files
\* when use_pregenerated is set.
NewGenerator ==
    /\ pc = "chars"
    /\ steps < MaxSteps
    /\ \E up \in BOOLEAN, sg \in BOOLEAN :
         /\ use_pregenerated' = up
         /\ save_generated' = sg
         /\ pregenerated_npcs' = IF up THEN LoadFile(npc_file) ELSE <<>>
         /\ pregenerated_enemies' = IF up THEN LoadFile(enemy_file) ELSE <<>>
    /\ npc_cache' = <<>>
    /\ enemy_cache' = <<>>
    /\ running' = TRUE
    /\ game_log' = <<>>
    /\ call' = [op |-> "new"]
    /\ steps' = steps + 1
    /\ UNCHANGED <<npc_file, enemy_file>>
    /\ UNCHANGED <<pc, genVars, entVars, talkVars>>
    /\ UNCHANGED <<player, current_level>>

(***************************************************************************)
(* SpecChars: sessions of a character generator over the two files of      *)
(* game/data, with the calls the game makes of it.                         *)
(***************************************************************************)
\* What the files hold before the first session: nothing, or one
\* descriptor saved for level 10.
NpcStores ==
    { NoFile, [exists |-> TRUE, data |-> (CacheKey("npc", 10, 1) :> NpcFull)] }
EnemyStores ==
    { NoFile, [exists |-> TRUE, data |-> (CacheKey("enemy", 10, 1) :> EnemyFull)] }

InitChars ==
    /\ pc = "chars"
    /\ width = 0 /\ height = 0 /\ max_rooms = 0
    /\ tiles = <<>> /\ rooms = <<>> /\ r = 0
    /\ NoEntities /\ NoTalk /\ NoCall
    /\ player = [x |-> 1, y |-> 1, hp |-> 100, attack |-> 10]
    /\ current_level = 0
    /\ game_log = <<>>
    /\ running = TRUE
    /\ steps = 0
    /\ use_pregenerated \in BOOLEAN
    /\ save_generated \in BOOLEAN
    /\ npc_cache = <<>> /\ enemy_cache = <<>>
    /\ npc_file \in NpcStores
    /\ enemy_file \in EnemyStores
    /\ pregenerated_npcs = IF use_pregenerated THEN LoadFile(npc_file) ELSE <<>>
    /\ pregenerated_enemies = IF use_pregenerated THEN LoadFile(enemy_file) ELSE <<>>

NextChars ==
    \/ GenerateNpc
    \/ GenerateEnemy
    \/ SaveCharacters
    \/ KeySave
    \/ KeyQuit
    \/ NewGenerator

SpecChars == InitChars /\ [][NextChars]_vars

\* A generate call has just returned.
GenNpcDone == call.op = "generate_npc"
GenEnemyDone == call.op = "generate_enemy"

(***************************************************************************)
(* C12: whenever the completion call made by generate_npc(level) or        *)
(* generate_enemy(level) raises, the call returns the fixed default        *)
(* character: the NPC named 'Dungeon Dweller <level>', the enemy named     *)
(* 'Dungeon Monster <level>' with hp 10 + 5 * level and attack 5 + level.  *)
(***************************************************************************)
C12_DefaultOnError ==
    /\ (GenNpcDone /\ call.llm /\ call.reply.raises) =>
         /\ call.ret.entity_type = "npc"
         /\ call.ret.name = <<"Dungeon Dweller", call.level>>
         /\ call.ret.personality = "Mysterious"
         /\ Len(call.ret.dialogue) = 3
    /\ (GenEnemyDone /\ call.llm /\ call.reply.raises) =>
         /\ call.ret.entity_type = "enemy"
         /\ call.ret.name = <<"Dungeon Monster", call.level>>
         /\ call.ret.hp = 10 + 5 * call.level
         /\ call.ret.attack = 5 + call.level

\* The completion raised in generate_enemy(10).
C12_Witness ==
    /\ GenEnemyDone
    /\ call.llm /\ call.reply.raises
    /\ call.level = 10

\* The text holds a JSON object: "{}" or "{" members "}".
HasObject(text) ==
    \E i \in 1..Len(text) :
        /\ text[i] = Open
        /\ \/ (i + 1 <= Len(text) /\ text[i + 1] = Close)
           \/ (i + 2 <= Len(text) /\ text[i + 1].t = "members"
                 /\ text[i + 2] = Close)

\* The completion returned a text without a JSON object.
NoJsonReply == call.llm /\ ~call.reply.raises /\ ~HasObject(call.reply.text)

(***************************************************************************)
(* C13, as claimed: a reply without a parsable JSON object yields the      *)
(* default character of _create_default_npc / _create_default_enemy.       *)
(***************************************************************************)
C13_Original ==
    /\ (GenNpcDone /\ NoJsonReply) =>
         LET d == CreateDefaultNpc(call.level)
         IN  /\ call.ret.name = d.name
             /\ call.ret.personality = d.personality
             /\ call.ret.dialogue = d.dialogue
             /\ call.ret.description = d.description
    /\ (GenEnemyDone /\ NoJsonReply) =>
         LET d == CreateDefaultEnemy(call.level)
         IN  /\ call.ret.name = d.name
             /\ call.ret.personality = d.personality
             /\ call.ret.description = d.description

(***************************************************************************)
(* C13, amended: a reply without a parsable JSON object yields the         *)
(* character built from the empty descriptor by the per-field defaults:    *)
(* the NPC 'NPC Level <level>', 'Mysterious', ['Hello, adventurer.'],      *)
(* 'A mysterious figure.'; the enemy 'Enemy Level <level>' with hp         *)
(* 10 + 5 * level, attack 5 + level, 'aggressive', 'Hostile',              *)
(* 'A menacing creature.'.                                                 *)
(***************************************************************************)
C13_FieldDefaults ==
    /\ (GenNpcDone /\ NoJsonReply) =>
         /\ call.data = <<>>
         /\ call.ret.name = <<"NPC Level", call.level>>
         /\ call.ret.personality = "Mysterious"
         /\ call.ret.dialogue = <<"Hello, adventurer.">>
         /\ call.ret.description = "A mysterious figure."
    /\ (GenEnemyDone /\ NoJsonReply) =>
         /\ call.data = <<>>
         /\ call.ret.name = <<"Enemy Level", call.level>>
         /\ call.ret.hp = 10 + 5 * call.level
         /\ call.ret.attack = 5 + call.level
         /\ call.ret.behavior = "aggressive"
         /\ call.ret.personality = "Hostile"
         /\ call.ret.description = "A menacing creature."

\* generate_npc got braces around prose, which json.loads rejects.
C13_Witness ==
    /\ GenNpcDone
    /\ NoJsonReply
    /\ call.reply.text = <<Open, Prose, Close>>

\* save_characters() has just run, called directly or by the 's' key with
\* saving on.
SaveDone ==
    \/ call.op = "save_characters"
    \/ (call.op = "handle_input" /\ call.key = "s" /\ save_generated)

(***************************************************************************)
(* C14, as claimed: after every save_characters() call the persisted NPC   *)
(* collection equals the NPC cache and the persisted enemy collection      *)
(* equals the enemy cache, an empty cache included.                        *)
(***************************************************************************)
C14_Original ==
    SaveDone =>
        /\ LoadFile(npc_file) = npc_cache
        /\ LoadFile(enemy_file) = enemy_cache

(***************************************************************************)
(* C14, amended: a save_characters() call makes the persisted collection   *)
(* of each kind equal to the cache of that kind when the cache is not      *)
(* empty, whatever the collection held before, and leaves the collection   *)
(* as it was when the cache is empty.                                      *)
(***************************************************************************)
C14_SaveOverwrites ==
    [][ (steps' = steps + 1 /\
         (call'.op = "save_characters" \/
          (call'.op = "handle_input" /\ call'.key = "s" /\ save_generated))) =>
          /\ npc_file' = IF npc_cache # <<>>
                         THEN [exists |-> TRUE, data |-> npc_cache]
                         ELSE npc_file
          /\ enemy_file' = IF enemy_cache # <<>>
                           THEN [exists |-> TRUE, data |-> enemy_cache]
                           ELSE enemy_file ]_vars

\* A save with a filled NPC cache and an empty enemy cache: the NPC file,
\* which held another descriptor, now equals the cache, and the enemy file
\* still holds what it held.
C14_Witness ==
    /\ call.op = "save_characters"
    /\ npc_cache # <<>>
    /\ npc_file.exists /\ npc_file.data = npc_cache
    /\ CacheKey("npc", 10, 1) \notin DOMAIN npc_cache
    /\ enemy_cache = <<>>
    /\ enemy_file.exists

\* The keys of the pregenerated descriptors that generate_npc(level) or
\* generate_enemy(level) chooses from.
LevelKeys(pregenerated, kind, level) ==
    { k \in DOMAIN pregenerated : k.kind = kind /\ DecPrefix(level, k.level) }

\* The call took its descriptor from the persisted store, where it was the
\* only match and stored for the level asked for.
OnlyMatch(pregenerated, kind) ==
    /\ use_pregenerated
    /\ ~call.llm
    /\ \E k \in DOMAIN pregenerated :
         /\ LevelKeys(pregenerated, kind, call.level) = {k}
         /\ k.level = call.level
         /\ pregenerated[k] = call.data

\* Field f of the character equals field f of the descriptor, if it has one.
SameField(f) == f \in DOMAIN call.data => call.ret[f] = call.data[f]

(***************************************************************************)
(* C15, as claimed: a descriptor saved under a key of level L and then     *)
(* generated from, as the only match, by a new generator in pregenerated   *)
(* mode gives a character whose name, personality and, for an enemy, hp,   *)
(* attack and behavior equal the descriptor's fields.                      *)
(***************************************************************************)
C15_Original ==
    /\ (GenNpcDone /\ OnlyMatch(pregenerated_npcs, "npc")) =>
         SameField("name") /\ SameField("personality")
    /\ (GenEnemyDone /\ OnlyMatch(pregenerated_enemies, "enemy")) =>
         /\ SameField("name") /\ SameField("personality")
         /\ SameField("hp") /\ SameField("attack") /\ SameField("behavior")

\* Field f of the character equals field f of the descriptor, or the
\* constructor's default when the descriptor's field is empty.
SameOrDefault(f, default) ==
    f \in DOMAIN call.data =>
        call.ret[f] = IF call.data[f] = "" THEN default ELSE call.data[f]

(***************************************************************************)
(* C15, amended: in that round trip the character's name and, for an       *)
(* enemy, hp and attack equal the descriptor's fields; its personality     *)
(* and, for an enemy, behavior equal the descriptor's fields unless these  *)
(* are empty, and are then the constructor's defaults: 'Neutral' for an    *)
(* NPC, 'Hostile' and 'aggressive' for an enemy.                           *)
(***************************************************************************)
C15_RoundTrip ==
    /\ (GenNpcDone /\ OnlyMatch(pregenerated_npcs, "npc")) =>
         SameField("name") /\ SameOrDefault("personality", "Neutral")
    /\ (GenEnemyDone /\ OnlyMatch(pregenerated_enemies, "enemy")) =>
         /\ SameField("name") /\ SameOrDefault("personality", "Hostile")
         /\ SameField("hp") /\ SameField("attack")
         /\ SameOrDefault("behavior", "aggressive")

\* An enemy descriptor with an empty behavior, generated and saved in one
\* session and generated from in the next.
C15_Witness ==
    /\ GenEnemyDone
    /\ OnlyMatch(pregenerated_enemies, "enemy")
    /\ call.data = EnemySparse
    /\ enemy_file.exists /\ enemy_file.data = pregenerated_enemies
    /\ call.ret.hp = 15 /\ call.ret.attack = 100

C17_NoWritesWhenDisabled ==
    [][ (~save_generated /\ call'.op # "save_characters") =>
          (npc_file' = npc_file /\ enemy_file' = enemy_file) ]_vars

\* Saving is off, a descriptor was generated and cached, the game was quit
\* and there is no NPC file.
C17_Witness ==
    /\ ~save_generated
    /\ npc_cache # <<>>
    /\ call.op = "handle_input" /\ call.key = "q"
    /\ ~running
    /\ ~npc_file.exists


(***************************************************************************)
(* Game: the handlers of the control loop.  A game state g is the Game     *)
(* object with what it owns: the player, the level number, the log, the    *)
(* running flag, the dungeon (tiles and entity lists, ent holding the      *)
(* entity objects) and the generator's caches and files.                   *)
(***************************************************************************)
MaxDepth == 1
MaxInputs == 2

\* The text of a name in an f-string
NameText(name) ==
    IF Len(name) = 1 THEN name[1] ELSE name[1] \o " " \o ToString(name[2])

\* A character as populate_entities places it: the generator's object with
\* "npc.x = x; npc.y = y".  NPC and Enemy block movement and start with an
\* empty conversation history.
Placed(character, x, y) ==
    [x |-> x, y |-> y, blocks_movement |-> TRUE, conversation_history |-> <<>>,
     max_history_length |-> 10]
    @@ character

\* Dungeon.get_adjacent_npc and get_adjacent_enemy: the first member of the
\* list within one tile in both directions, 0 for None
RECURSIVE GetAdjacentNpc(_, _, _, _)
GetAdjacentNpc(ns, store, x, y) ==
    IF ns = <<>> THEN 0
    ELSE IF Abs(store[Head(ns)].x - x) <= 1 /\ Abs(store[Head(ns)].y - y) <= 1
    THEN Head(ns)
    ELSE GetAdjacentNpc(Tail(ns), store, x, y)

RECURSIVE GetAdjacentEnemy(_, _, _, _)
GetAdjacentEnemy(es, store, x, y) ==
    IF es = <<>> THEN 0
    ELSE IF Abs(store[Head(es)].x - x) <= 1 /\ Abs(store[Head(es)].y - y) <= 1
    THEN Head(es)
    ELSE GetAdjacentEnemy(Tail(es), store, x, y)

\* The map generator's outcome the levels in play are built on: two rooms
\* side by side, the tunnel between their centers and the stairs in the
\* second.
PlayRooms == << Room(1, 1, 6, 6), Room(7, 1, 12, 6) >>

PlayTiles ==
    LET d == [hfirst |-> TRUE, extra |-> -1, xhfirst |-> TRUE]
        t1 == AcceptRoom(NewTiles(LevelWidth, LevelHeight), <<>>, PlayRooms[1], d)
        t2 == AcceptRoom(t1, <<PlayRooms[1]>>, PlayRooms[2], d)
    IN  WithStairs(t2, PlayRooms)

\* The positions populate_entities draws in play, for the NPC and the two
\* enemies in turn: the NPC away and both enemies next to the first room's
\* center; or the NPC next to it, one enemy in the tunnel and one away.
PlaySpots ==
    { << <<5, 5>>, <<4, 3>>, <<2, 2>> >>,
      << <<4, 3>>, <<6, 3>>, <<5, 5>> >> }

\* The draws of one populate_entities call that places one NPC and two
\* enemies: the three positions, each clear and far from the stairs, and the
\* descriptors the completion replies with.
LevelDraws ==
    { d \in [spots : PlaySpots, npc : {NpcFull},
             enemies : { <<EnemyFull, EnemySparse>> }] :
        /\ \A i \in 1..3 : d.spots[i] \in Spots(PlayTiles, <<>>)
        /\ \A i, j \in 1..3 : d.spots[i] = d.spots[j] => i = j }

\* generate_npc or generate_enemy when the completion replies with the
\* descriptor data and the key drawn is a new one: the descriptor is cached
\* and, when saving is on, both caches are saved.
Store(g, kind, level, n, data) ==
    LET nc == IF kind = "npc"
              THEN Put(g.npc_cache, CacheKey(kind, level, n), data)
              ELSE g.npc_cache
        ec == IF kind = "enemy"
              THEN Put(g.enemy_cache, CacheKey(kind, level, n), data)
              ELSE g.enemy_cache
    IN  [g EXCEPT !.npc_cache = nc, !.enemy_cache = ec,
                  !.npc_file = IF save_generated THEN SaveFile(nc, @) ELSE @,
                  !.enemy_file = IF save_generated THEN SaveFile(ec, @) ELSE @]

\* populate_entities(npc_generator, level) with the draws d
Populate(g, d) ==
    LET level == g.current_level
        g1 == Store(g, "npc", level, 1, d.npc)
        g2 == Store(g1, "enemy", level, 1, d.enemies[1])
        g3 == Store(g2, "enemy", level, 2, d.enemies[2])
    IN  [g3 EXCEPT
           !.ent = << Placed(CreateNpcFromData(d.npc, level),
                             d.spots[1][1], d.spots[1][2]),
                      Placed(CreateEnemyFromData(d.enemies[1], level),
                             d.spots[2][1], d.spots[2][2]),
                      Placed(CreateEnemyFromData(d.enemies[2], level),
                             d.spots[3][1], d.spots[3][2]) >>,
           !.entities = <<1, 2, 3>>,
           !.npcs = <<1>>,
           !.enemies = <<2, 3>>]

\* A slip: the player is rebuilt with the level, back at full hp.
GenerateNewLevelHealsPlayer(g, d) ==
    LET first == Center(PlayRooms[1])
        g1 == [g EXCEPT !.tiles = PlayTiles,
                        !.player = [@ EXCEPT !.x = first[1], !.y = first[2],
                                             !.hp = 100]]
        g2 == Populate(g1, d)
        stairs_pos == StairsPos(g2.tiles)
    IN  IF stairs_pos = <<>>
        THEN g2
        ELSE IF ~VerifyPath(g2.tiles, Objs(g2.entities, g2.ent), first, stairs_pos)
        THEN [g2 EXCEPT
                !.tiles = GameCreateDirectPath(@, first, stairs_pos),
                !.game_log = AddToLog(@, "Emergency path to stairs created!")]
        ELSE [g2 EXCEPT
                !.game_log = AddToLog(@, "Level " \o ToString(g.current_level)
                                         \o " generated with valid path to exit.")]

\* Game._generate_new_level with the draws d
GenerateNewLevel(g, d) ==
    LET first == Center(PlayRooms[1])
        g1 == [g EXCEPT !.tiles = PlayTiles,
                        !.player = [@ EXCEPT !.x = first[1], !.y = first[2]]]
        g2 == Populate(g1, d)
        stairs_pos == StairsPos(g2.tiles)
    IN  IF stairs_pos = <<>>
        THEN g2
        ELSE IF ~VerifyPath(g2.tiles, Objs(g2.entities, g2.ent), first, stairs_pos)
        THEN [g2 EXCEPT
                !.tiles = GameCreateDirectPath(@, first, stairs_pos),
                !.game_log = AddToLog(@, "Emergency path to stairs created!")]
        ELSE [g2 EXCEPT
                !.game_log = AddToLog(@, "Level " \o ToString(g.current_level)
                                         \o " generated with valid path to exit.")]

\* A slip: a blocked move is reported in the log.
TryMoveReportsBlocked(g, dx, dy, d) ==
    LET new_x == g.player.x + dx
        new_y == g.player.y + dy
    IN  IF IsWalkable(g.tiles, Objs(g.entities, g.ent), new_x, new_y)
        THEN LET g1 == [g EXCEPT !.player = [@ EXCEPT !.x = new_x, !.y = new_y]]
             IN  IF IsLevelExit(g.tiles, new_x, new_y)
                 THEN GenerateNewLevel(
                        [g1 EXCEPT
                           !.current_level = @ + 1,
                           !.game_log = AddToLog(@, "Descending to dungeon level "
                                                    \o ToString(g.current_level + 2)
                                                    \o "...")], d)
                 ELSE g1
        ELSE [g EXCEPT !.game_log = AddToLog(@, "You can't go that way.")]

\* Game._try_move(dx, dy); d are the draws of the new level when the move
\* ends on the stairs
TryMove(g, dx, dy, d) ==
    LET new_x == g.player.x + dx
        new_y == g.player.y + dy
    IN  IF IsWalkable(g.tiles, Objs(g.entities, g.ent), new_x, new_y)
        THEN LET g1 == [g EXCEPT !.player = [@ EXCEPT !.x = new_x, !.y = new_y]]
             IN  IF IsLevelExit(g.tiles, new_x, new_y)
                 THEN GenerateNewLevel(
                        [g1 EXCEPT
                           !.current_level = @ + 1,
                           !.game_log = AddToLog(@, "Descending to dungeon level "
                                                    \o ToString(g.current_level + 2)
                                                    \o "...")], d)
                 ELSE g1
        ELSE g

\* The response of the completion to a query in a conversation, a short
\* text that _display_dialogue puts on one line
Response == "Greetings."

\* NPC.talk(query) and Enemy.talk(query) on the character object c, the
\* completion returning
TalkTo(c, query) ==
    LET h == Append(c.conversation_history,
                    [query |-> query, response |-> Response])
    IN  [c EXCEPT !.conversation_history =
                     IF Len(h) > c.max_history_length
                     THEN TrimConversationHistory(h, c.max_history_length)
                     ELSE h]

\* Game._interact_with_npc(npc): the greeting, then _get_player_input with
\* the player leaving on an empty line
InteractWithNpc(g, npc) ==
    LET l1 == AddToLog(g.game_log, NameText(g.ent[npc].name) \o ":")
        l2 == AddToLog(l1, "  " \o Response)
        l3 == AddToLog(l2, "(Type your response and press Enter, or just press Enter to leave)")
    IN  [g EXCEPT !.ent[npc] = TalkTo(@, "*You approach the character*"),
                  !.game_log = AddToLog(l3, "You end the conversation.")]

\* Game._interact_with_enemy(enemy), the player leaving on an empty line
InteractWithEnemy(g, enemy) ==
    LET l1 == AddToLog(g.game_log, NameText(g.ent[enemy].name) \o ":")
        l2 == AddToLog(l1, "  " \o Response)
        l3 == AddToLog(l2, "(Type your response and press Enter, or just press Enter to leave)")
        l4 == AddToLog(l3, "(WARNING: Talking does not prevent combat!)")
    IN  [g EXCEPT !.ent[enemy] = TalkTo(@, "*You approach the enemy*"),
                  !.game_log = AddToLog(l4, "You end the conversation.")]

\* Game._talk_to_character
TalkToCharacter(g) ==
    LET npc == GetAdjacentNpc(g.npcs, g.ent, g.player.x, g.player.y)
        enemy == GetAdjacentEnemy(g.enemies, g.ent, g.player.x, g.player.y)
    IN  IF npc # 0 THEN InteractWithNpc(g, npc)
        ELSE IF enemy # 0 THEN InteractWithEnemy(g, enemy)
        ELSE [g EXCEPT !.game_log = AddToLog(@, "There's no one to talk to here.")]

\* A slip: < in place of <=.
PlayerDefeatedBelowZero(hp) == hp < 0

\* "if self.player.hp <= 0"
PlayerDefeated(hp) == hp <= 0

\* A slip: the enemy's hp is tested before the damage is taken off.
AttackEnemyStaleHp(g) ==
    LET enemy == GetAdjacentEnemy(g.enemies, g.ent, g.player.x, g.player.y)
    IN  IF enemy # 0
        THEN LET name == NameText(g.ent[enemy].name)
                 damage == g.player.attack
                 g1 == [g EXCEPT
                          !.ent[enemy] = [@ EXCEPT !.hp = @ - damage],
                          !.game_log = AddToLog(@, "You attack " \o name \o " for "
                                                   \o ToString(damage) \o " damage!")]
             IN  IF g.ent[enemy].hp <= 0
                 THEN LET l == RemoveEntity([entities |-> g1.entities,
                                             npcs |-> g1.npcs,
                                             enemies |-> g1.enemies],
                                            g1.ent[enemy].entity_type, enemy)
                      IN  [g1 EXCEPT
                             !.game_log = AddToLog(@, "You defeated " \o name \o "!"),
                             !.entities = l.entities,
                             !.npcs = l.npcs,
                             !.enemies = l.enemies]
                 ELSE LET player_damage == g1.ent[enemy].attack
                          g2 == [g1 EXCEPT
                                   !.player = [@ EXCEPT !.hp = @ - player_damage],
                                   !.game_log = AddToLog(@, name \o " attacks you for "
                                                            \o ToString(player_damage)
                                                            \o " damage!")]
                      IN  IF PlayerDefeated(g2.player.hp)
                          THEN [g2 EXCEPT
                                  !.game_log = AddToLog(@, "You have been defeated!"),
                                  !.running = FALSE]
                          ELSE g2
        ELSE [g EXCEPT !.game_log = AddToLog(@, "There's no enemy to attack here.")]

\* Game._attack_enemy
AttackEnemy(g) ==
    LET enemy == GetAdjacentEnemy(g.enemies, g.ent, g.player.x, g.player.y)
    IN  IF enemy # 0
        THEN LET name == NameText(g.ent[enemy].name)
                 damage == g.player.attack
                 g1 == [g EXCEPT
                          !.ent[enemy] = [@ EXCEPT !.hp = @ - damage],
                          !.game_log = AddToLog(@, "You attack " \o name \o " for "
                                                   \o ToString(damage) \o " damage!")]
             IN  IF g1.ent[enemy].hp <= 0
                 THEN LET l == RemoveEntity([entities |-> g1.entities,
                                             npcs |-> g1.npcs,
                                             enemies |-> g1.enemies],
                                            g1.ent[enemy].entity_type, enemy)
                      IN  [g1 EXCEPT
                             !.game_log = AddToLog(@, "You defeated " \o name \o "!"),
                             !.entities = l.entities,
                             !.npcs = l.npcs,
                             !.enemies = l.enemies]
                 ELSE LET player_damage == g1.ent[enemy].attack
                          g2 == [g1 EXCEPT
                                   !.player = [@ EXCEPT !.hp = @ - player_damage],
                                   !.game_log = AddToLog(@, name \o " attacks you for "
                                                            \o ToString(player_damage)
                                                            \o " damage!")]
                      IN  IF PlayerDefeated(g2.player.hp)
                          THEN [g2 EXCEPT
                                  !.game_log = AddToLog(@, "You have been defeated!"),
                                  !.running = FALSE]
                          ELSE g2
        ELSE [g EXCEPT !.game_log = AddToLog(@, "There's no enemy to attack here.")]

\* Game.setup with the draws d of the first level
Setup(g, d) ==
    LET g1 == GenerateNewLevel(
                [g EXCEPT !.player = [x |-> 1, y |-> 1, hp |-> 100, attack |-> 10]], d)
        l1 == AddToLog(g1.game_log, "Welcome to Roguelike LLM Dungeon!")
        l2 == IF use_pregenerated
              THEN AddToLog(l1, "Using pre-generated characters.")
              ELSE LET m == AddToLog(l1, "Generating new characters with Claude 3.7 Sonnet.")
                   IN  IF save_generated
                       THEN AddToLog(m, "Characters will be saved for future use.")
                       ELSE m
    IN  [g1 EXCEPT
           !.running = TRUE,
           !.game_log = AddToLog(l2, "Use arrow keys to move, 't' to talk, 'f' to fight, 'q' to quit.")]

\* Game.__init__
NewGame ==
    [player |-> [x |-> 1, y |-> 1, hp |-> 100, attack |-> 10],
     current_level |-> 0, game_log |-> <<>>, running |-> FALSE,
     tiles |-> <<>>, entities |-> <<>>, npcs |-> <<>>, enemies |-> <<>>,
     ent |-> <<>>, npc_cache |-> <<>>, enemy_cache |-> <<>>,
     npc_file |-> NoFile, enemy_file |-> NoFile]

\* The game state held by the variables, and the variables set from one
GameState ==
    [player |-> player, current_level |-> current_level, game_log |-> game_log,
     running |-> running, tiles |-> tiles, entities |-> entities, npcs |-> npcs,
     enemies |-> enemies, ent |-> ent, npc_cache |-> npc_cache,
     enemy_cache |-> enemy_cache, npc_file |-> npc_file,
     enemy_file |-> enemy_file]

SetGame(g) ==
    /\ player' = g.player
    /\ current_level' = g.current_level
    /\ game_log' = g.game_log
    /\ running' = g.running
    /\ tiles' = g.tiles
    /\ entities' = g.entities
    /\ npcs' = g.npcs
    /\ enemies' = g.enemies
    /\ ent' = g.ent
    /\ npc_cache' = g.npc_cache
    /\ enemy_cache' = g.enemy_cache
    /\ npc_file' = g.npc_file
    /\ enemy_file' = g.enemy_file

\* The arrow keys and their _try_move arguments
MoveKeys ==
    [KEY_UP |-> <<0, -1>>, KEY_DOWN |-> <<0, 1>>,
     KEY_LEFT |-> <<-1, 0>>, KEY_RIGHT |-> <<1, 0>>]

\* Game.handle_input(key) for an arrow key, followed by Game.update, which
\* changes none of this state: the entities' update methods look for the
\* dungeon in player.dungeon, which is never set.  A move onto the stairs
\* generates the next level; the model stops descending at MaxDepth, and
\* counts in steps the descents, talks and attacks, up to MaxInputs.
KeyMove ==
    /\ pc = "play" /\ running
    /\ \E key \in DOMAIN MoveKeys :
         LET dx == MoveKeys[key][1]
             dy == MoveKeys[key][2]
             new_x == player.x + dx
             new_y == player.y + dy
         IN  /\ IF /\ IsWalkable(tiles, Objs(entities, ent), new_x, new_y)
                   /\ IsLevelExit(tiles, new_x, new_y)
                THEN /\ current_level < MaxDepth
                     /\ steps < MaxInputs
                     /\ steps' = steps + 1
                     /\ \E d \in LevelDraws :
                          \E g \in {TryMove(GameState, dx, dy, d)} : SetGame(g)
                ELSE /\ steps' = steps
                     /\ \E g \in {TryMove(GameState, dx, dy,
                                            CHOOSE d \in LevelDraws : TRUE)} :
                          SetGame(g)
             /\ call' = [op |-> "handle_input", key |-> key]
    /\ UNCHANGED <<width, height, max_rooms, rooms, r, pc, todo, cap>>
    /\ UNCHANGED <<talkVars, use_pregenerated, save_generated,
                   pregenerated_npcs, pregenerated_enemies>>

\* Game.handle_input('t')
KeyTalk ==
    /\ pc = "play" /\ running
    /\ steps < MaxInputs
    /\ \E g \in {TalkToCharacter(GameState)} : SetGame(g)
    /\ call' = [op |-> "handle_input", key |-> "t"]
    /\ steps' = steps + 1
    /\ UNCHANGED <<width, height, max_rooms, rooms, r, pc, todo, cap>>
    /\ UNCHANGED <<talkVars, use_pregenerated, save_generated,
                   pregenerated_npcs, pregenerated_enemies>>

\* Game.handle_input('f')
KeyFight ==
    /\ pc = "play" /\ running
    /\ steps < MaxInputs
    /\ \E g \in {AttackEnemy(GameState)} : SetGame(g)
    /\ call' = [op |-> "handle_input", key |-> "f"]
    /\ steps' = steps + 1
    /\ UNCHANGED <<width, height, max_rooms, rooms, r, pc, todo, cap>>
    /\ UNCHANGED <<talkVars, use_pregenerated, save_generated,
                   pregenerated_npcs, pregenerated_enemies>>

(***************************************************************************)
(* SpecPlay: Game.run from the return of Game.setup on, with live          *)
(* generation (use_pregenerated off), the keys handled one by one while    *)
(* running holds.  The history view ('h') is not entered.                  *)
(***************************************************************************)
InitPlay ==
    /\ pc = "play"
    /\ width = LevelWidth /\ height = LevelHeight /\ max_rooms = LevelMaxRooms
    /\ rooms = PlayRooms /\ r = LevelMaxRooms
    /\ todo = [npcs |-> 0, enemies |-> 0]
    /\ cap = [npcs |-> 1, enemies |-> 2]
    /\ NoTalk /\ NoCall
    /\ steps = 0
    /\ use_pregenerated = FALSE
    /\ save_generated \in BOOLEAN
    /\ pregenerated_npcs = <<>> /\ pregenerated_enemies = <<>>
    /\ \E d \in LevelDraws :
         \E g \in {Setup(NewGame, d)} :
             /\ player = g.player
             /\ current_level = g.current_level
             /\ game_log = g.game_log
             /\ running = g.running
             /\ tiles = g.tiles
             /\ entities = g.entities
             /\ npcs = g.npcs
             /\ enemies = g.enemies
             /\ ent = g.ent
             /\ npc_cache = g.npc_cache
             /\ enemy_cache = g.enemy_cache
             /\ npc_file = g.npc_file
             /\ enemy_file = g.enemy_file

NextPlay ==
    \/ KeyMove
    \/ KeyTalk
    \/ KeyFight
    \/ KeySave
    \/ KeyQuit

SpecPlay == InitPlay /\ [][NextPlay]_vars

\* The key just handled
KeyDone(key) == call.op = "handle_input" /\ call.key = key

\* The enemies of the list within one tile of the player in both directions
AdjacentEnemies ==
    { e \in 1..Len(ent) :
        /\ InSeq(enemies, e)
        /\ Cheb(<<ent[e].x, ent[e].y>>, <<player.x, player.y>>) <= 1 }

AdjacentNpcs ==
    { e \in 1..Len(ent) :
        /\ InSeq(npcs, e)
        /\ Cheb(<<ent[e].x, ent[e].y>>, <<player.x, player.y>>) <= 1 }

\* The log after one more message
Logged(log, message) ==
    IF Len(log) < MaxLogSize THEN Append(log, message)
    ELSE Append(Tail(log), message)

(***************************************************************************)
(* C11: each attack ('f') with an enemy adjacent lowers the hp of one      *)
(* adjacent enemy by exactly the player's attack value and leaves the hp   *)
(* of the other enemies alone; that enemy is gone from the all-entities    *)
(* list and from the enemy list when its resulting hp is <= 0, and is      *)
(* still in both lists otherwise.                                          *)
(***************************************************************************)
C11_AttackDamage ==
    [][ (call'.op = "handle_input" /\ call'.key = "f" /\ AdjacentEnemies # {}) =>
          \E e \in AdjacentEnemies :
            /\ ent'[e].hp = ent[e].hp - player.attack
            /\ \A o \in 1..Len(ent) :
                 (o # e /\ ent[o].entity_type = "enemy") => ent'[o].hp = ent[o].hp
            /\ IF ent'[e].hp <= 0
               THEN ~InSeq(entities', e) /\ ~InSeq(enemies', e)
               ELSE InSeq(entities', e) /\ InSeq(enemies', e) ]_vars

\* The second attack on an enemy of 15 hp with attack 10: its hp is -5 and
\* it is in neither list, the other enemy being untouched.
C11_Witness ==
    /\ KeyDone("f")
    /\ player.attack = 10
    /\ \E e \in 1..Len(ent) :
         /\ ent[e].entity_type = "enemy"
         /\ ent[e].max_hp = 15
         /\ ent[e].hp = -5
         /\ ~InSeq(entities, e)
         /\ ~InSeq(enemies, e)
    /\ Len(enemies) = 1

(***************************************************************************)
(* C18, as claimed: a move into a tile that is not walkable appends        *)
(* exactly one message to the log.                                         *)
(***************************************************************************)
C18_Original ==
    [][ (/\ call'.op = "handle_input"
         /\ call'.key \in DOMAIN MoveKeys
         /\ ~IsWalkable(tiles, Objs(entities, ent),
                        player.x + MoveKeys[call'.key][1],
                        player.y + MoveKeys[call'.key][2]))
        => Len(game_log') = Len(game_log) + 1 ]_vars

(***************************************************************************)
(* C18, amended: a move into a tile that is not walkable appends nothing   *)
(* to the log; talking with no NPC and no enemy adjacent, and attacking    *)
(* with no enemy adjacent, each append exactly one message.  All three     *)
(* leave the player, the level number, the running flag, the tiles and the *)
(* entities unchanged.                                                     *)
(***************************************************************************)
C18_InvalidActions ==
    [][ (call'.op = "handle_input") =>
          LET blocked ==
                /\ call'.key \in DOMAIN MoveKeys
                /\ ~IsWalkable(tiles, Objs(entities, ent),
                               player.x + MoveKeys[call'.key][1],
                               player.y + MoveKeys[call'.key][2])
              talk == call'.key = "t" /\ AdjacentNpcs = {} /\ AdjacentEnemies = {}
              attack == call'.key = "f" /\ AdjacentEnemies = {}
          IN  /\ blocked => game_log' = game_log
              /\ talk => game_log' = Logged(game_log, "There's no one to talk to here.")
              /\ attack => game_log' = Logged(game_log, "There's no enemy to attack here.")
              /\ (blocked \/ talk \/ attack) =>
                   /\ player' = player
                   /\ current_level' = current_level
                   /\ running' = running
                   /\ tiles' = tiles
                   /\ entities' = entities /\ npcs' = npcs /\ enemies' = enemies
                   /\ ent' = ent ]_vars

\* A talk and an attack with nobody adjacent have both been reported, the
\* attack last.
C18_Witness ==
    /\ KeyDone("f")
    /\ AdjacentEnemies = {}
    /\ Len(game_log) >= 2
    /\ game_log[Len(game_log)] = "There's no enemy to attack here."
    /\ game_log[Len(game_log) - 1] = "There's no one to talk to here."

(***************************************************************************)
(* C19: whenever the player's hp is <= 0 the message 'You have been        *)
(* defeated!' is in the log and running is false; no input is handled once *)
(* running is false; and running becomes false with the player's hp still  *)
(* above 0 only by the quit key.                                           *)
(***************************************************************************)
C19_DefeatTerminal ==
    /\ [](player.hp <= 0 =>
            /\ ~running
            /\ \E i \in 1..Len(game_log) : game_log[i] = "You have been defeated!")
    /\ [][ /\ pc = "play" => running
           /\ (running /\ ~running' /\ player'.hp > 0) =>
                (call'.op = "handle_input" /\ call'.key = "q") ]_vars

\* The counterattack of an enemy of attack 100 has taken the player's hp
\* from 100 to 0.
C19_Witness ==
    /\ KeyDone("f")
    /\ player.hp = 0
    /\ ~running
    /\ game_log[Len(game_log)] = "You have been defeated!"


(***************************************************************************)
(* _verify_path step by step.  The frame of a call holds its arguments and *)
(* locals: start, end, the deque queue and the set visited, with done and  *)
(* ret set when it returns.                                                *)
(***************************************************************************)
PathWidth == 3
PathHeight == 2

\* "visited = set(); queue = deque([start])"
NewFrame(start, end) ==
    [op |-> "verify_path", start |-> start, end |-> end,
     queue |-> <<start>>, visited |-> {}, done |-> FALSE, ret |-> FALSE]

\* A slip: the directions lack (-1, 0).
BFSStepNoLeft(t, es, f) ==
    IF f.queue = <<>>
    THEN [f EXCEPT !.done = TRUE, !.ret = FALSE]
    ELSE LET current == Head(f.queue)
             rest == Tail(f.queue)
         IN  IF current = f.end
             THEN [f EXCEPT !.queue = rest, !.done = TRUE, !.ret = TRUE]
             ELSE IF current \in f.visited
             THEN [f EXCEPT !.queue = rest]
             ELSE LET seen == f.visited \cup {current}
                      nexts == [i \in 1..3 |->
                                 <<current[1] + Directions[i][1],
                                   current[2] + Directions[i][2]>>]
                      ok(p) == IsWalkable(t, es, p[1], p[2]) /\ p \notin seen
                  IN  [f EXCEPT !.queue = rest \o SelectSeq(nexts, ok),
                                !.visited = seen]

\* One test of "while queue:" and, when the queue is not empty, one pass
\* through the body of the loop
BFSStep(t, es, f) ==
    IF f.queue = <<>>
    THEN [f EXCEPT !.done = TRUE, !.ret = FALSE]
    ELSE LET current == Head(f.queue)
             rest == Tail(f.queue)
         IN  IF current = f.end
             THEN [f EXCEPT !.queue = rest, !.done = TRUE, !.ret = TRUE]
             ELSE IF current \in f.visited
             THEN [f EXCEPT !.queue = rest]
             ELSE LET seen == f.visited \cup {current}
                      nexts == [i \in 1..4 |->
                                 <<current[1] + Directions[i][1],
                                   current[2] + Directions[i][2]>>]
                      ok(p) == IsWalkable(t, es, p[1], p[2]) /\ p \notin seen
                  IN  [f EXCEPT !.queue = rest \o SelectSeq(nexts, ok),
                                !.visited = seen]

\* The points a test passes as start and end: the cells of the grid and
\* the points next to its right edge, which are out of bounds.
PathPoints == (0..width) \X (0..(height - 1))

\* _verify_path(start, end) is called.
VerifyPathCall ==
    /\ pc = "path_test"
    /\ \E start \in PathPoints, end \in PathPoints :
         call' = NewFrame(start, end)
    /\ pc' = "bfs"
    /\ UNCHANGED <<genVars, entVars, gameVars, talkVars>>
    /\ UNCHANGED charVars

\* The loop of the call runs once more, or ends and the call returns.
VerifyPathStep ==
    /\ pc = "bfs"
    /\ call' = BFSStep(tiles, Objs(entities, ent), call)
    /\ pc' = IF call'.done THEN "returned" ELSE "bfs"
    /\ UNCHANGED <<genVars, entVars, gameVars, talkVars>>
    /\ UNCHANGED charVars

(***************************************************************************)
(* SpecPath: _verify_path called once on a test grid.  The test grids hold *)
(* Wall or Floor at any cell and no entity or a blocking one at (1, 0).    *)
(* The interpreter runs a call that has been made, which is the fairness   *)
(* of SpecPath on the steps of the loop.                                   *)
(***************************************************************************)
InitPath ==
    /\ pc = "path_test"
    /\ width = PathWidth /\ height = PathHeight /\ max_rooms = 0
    /\ tiles \in [0..(PathWidth - 1) -> [0..(PathHeight - 1) -> {Wall, Floor}]]
    /\ rooms = <<>> /\ r = 0
    /\ \/ entities = <<>> /\ ent = <<>>
       \/ entities = <<1>> /\ ent = <<Entity("generic", 1, 0, TRUE, 0, 0)>>
    /\ npcs = <<>> /\ enemies = <<>>
    /\ todo = [npcs |-> 0, enemies |-> 0]
    /\ cap = [npcs |-> 0, enemies |-> 0]
    /\ NoGame /\ NoTalk /\ NoCall /\ NoChars

NextPath ==
    \/ VerifyPathCall
    \/ VerifyPathStep

SpecPath == InitPath /\ [][NextPath]_vars /\ WF_vars(VerifyPathStep)

(***************************************************************************)
(* C20: every call of _verify_path(start, end) returns, and it returns     *)
(* true exactly when start equals end or end can be reached from start by  *)
(* steps to 4-directionally adjacent tiles, each tile stepped on being     *)
(* walkable; the recursive form VerifyPath gives the same answer.          *)
(***************************************************************************)
C20_VerifyPath ==
    /\ [](pc = "returned" =>
            /\ call.ret = (\/ call.start = call.end
                           \/ call.end \in ReachFrom(tiles, Objs(entities, ent),
                                                     {call.start}))
            /\ call.ret = VerifyPath(tiles, Objs(entities, ent),
                                     call.start, call.end))
    /\ (pc = "bfs" ~> pc = "returned")

\* A call has returned true for an end three steps from the start, after
\* at least three cells were visited.
C20_Witness ==
    /\ pc = "returned"
    /\ call.ret
    /\ Abs(call.start[1] - call.end[1]) + Abs(call.start[2] - call.end[2]) = 3
    /\ Cardinality(call.visited) >= 3


(***************************************************************************)
(* C21: after generate_dungeon with at least one accepted room, the exit   *)
(* tile is at the center (integer midpoint) of the last accepted room: the *)
(* path check and the forced path that follow the placement leave it       *)
(* there, and it is the only exit tile of the grid.                        *)
(***************************************************************************)
LastCenter == Center(rooms[Len(rooms)])

C21_ExitAtLastCenter ==
    (Generated /\ rooms # <<>>) =>
        /\ LastCenter = << (rooms[Len(rooms)].x1 + rooms[Len(rooms)].x2) \div 2,
                           (rooms[Len(rooms)].y1 + rooms[Len(rooms)].y2) \div 2 >>
        /\ tiles[LastCenter[1]][LastCenter[2]] = Stairs
        /\ ExitTiles = {LastCenter}

\* A dungeon of three rooms, the exit in the third and not in the others.
C21_Witness ==
    /\ Generated
    /\ Len(rooms) = 3
    /\ ExitTiles = {Center(rooms[3])}
    /\ Center(rooms[1]) # Center(rooms[3])
    /\ Center(rooms[2]) # Center(rooms[3])

(***************************************************************************)
(* C22: the accepted rooms are pairwise non-intersecting under the         *)
(* edge-inclusive test and each lies inside the grid, 1 <= x1 < x2 <=      *)
(* width-1 and 1 <= y1 < y2 <= height-1; an iteration whose candidate is   *)
(* rejected (the iteration counter advances, the room list does not)       *)
(* changes no tile.                                                        *)
(***************************************************************************)
RoomsDisjointInside ==
    /\ \A i, j \in 1..Len(rooms) : i # j => ~Intersects(rooms[i], rooms[j])
    /\ \A i \in 1..Len(rooms) :
         /\ 1 <= rooms[i].x1 /\ rooms[i].x1 < rooms[i].x2
         /\ rooms[i].x2 <= width - 1
         /\ 1 <= rooms[i].y1 /\ rooms[i].y1 < rooms[i].y2
         /\ rooms[i].y2 <= height - 1

C22_RoomsDisjoint ==
    /\ [](pc \in {"rooms", "generated"} => RoomsDisjointInside)
    /\ [][(r' = r + 1 /\ rooms' = rooms) => tiles' = tiles]_vars

\* Two rooms are accepted and a later candidate has been rejected.
C22_Witness ==
    /\ pc = "rooms"
    /\ Len(rooms) = 2
    /\ r = 3

(***************************************************************************)
(* C23: after generate_dungeon the center of every accepted room is        *)
(* reachable from the center of every other accepted room over 4-adjacent  *)
(* Floor or Exit tiles, for every order chosen for the tunnels.            *)
(***************************************************************************)
C23_CentersConnected ==
    Generated =>
        \A i, j \in 1..Len(rooms) :
            Center(rooms[j]) \in ReachFrom(tiles, <<>>, {Center(rooms[i])})

\* Three rooms, the second neither in the row nor in the column of the
\* first, so that the tunnel between them has a corner.
C23_Witness ==
    /\ Generated
    /\ Len(rooms) = 3
    /\ Center(rooms[1])[1] # Center(rooms[2])[1]
    /\ Center(rooms[1])[2] # Center(rooms[2])[2]


(***************************************************************************)
(* C24: a move of the player that lands on the exit tile raises            *)
(* current_level by exactly 1 and replaces the dungeon: the entity lists   *)
(* hold the newly created characters only (one NPC and two enemies, each   *)
(* with an empty conversation history, each enemy at its full hp), the     *)
(* player stands at the center of the new first room and keeps the hp it   *)
(* had.  A move that does not land on an exit leaves current_level and the *)
(* tiles unchanged.                                                        *)
(***************************************************************************)
\* The new level's entity set as populate_entities leaves it
FreshEntities(es, ns, ens, store) ==
    /\ Len(ns) = 1 /\ Len(ens) = 2
    /\ Len(es) = 3
    /\ \A i \in 1..3 : InSeq(es, (ns \o ens)[i])
    /\ \A i \in 1..3 :
         /\ store[es[i]].conversation_history = <<>>
         /\ store[es[i]].entity_type = "enemy" =>
              store[es[i]].hp = store[es[i]].max_hp

C24_Descent ==
    [][ (call'.op = "handle_input" /\ call'.key \in DOMAIN MoveKeys) =>
          LET new_x == player.x + MoveKeys[call'.key][1]
              new_y == player.y + MoveKeys[call'.key][2]
          IN  IF /\ IsWalkable(tiles, Objs(entities, ent), new_x, new_y)
                 /\ IsLevelExit(tiles, new_x, new_y)
              THEN /\ current_level' = current_level + 1
                   /\ FreshEntities(entities', npcs', enemies', ent')
                   /\ <<player'.x, player'.y>> = Center(PlayRooms[1])
                   /\ player'.hp = player.hp
                   /\ running' = running
              ELSE /\ current_level' = current_level
                   /\ tiles' = tiles ]_vars

\* The player, hurt on the first level by an enemy that it hurt (an enemy
\* that the new level does not hold), has descended and stands at the new
\* first room's center.
C24_Witness ==
    /\ call.op = "handle_input" /\ call.key \in DOMAIN MoveKeys
    /\ current_level = 1
    /\ <<player.x, player.y>> = Center(PlayRooms[1])
    /\ player.hp < 100
    /\ \A i \in 1..Len(enemies) : ent[enemies[i]].hp = ent[enemies[i]].max_hp
    /\ game_log[Len(game_log) - 1] = "Descending to dungeon level 2..."


(***************************************************************************)
(* C25: when _generate_new_level has completed on a level whose dungeon    *)
(* was generated with an exit, an exit tile is reached from the player's   *)
(* position over 4-adjacent walkable tiles, a tile that holds a blocking   *)
(* NPC or enemy not being walkable.                                        *)
(* Violated: the emergency path writes Floor over the exit (see C4) and    *)
(* leaves the blocking character in the way.                               *)
(***************************************************************************)
PlayerPos == <<player.x, player.y>>

C25_PathAfterPlacement ==
    (pc = "play" /\ rooms # <<>>) =>
        \E s \in ExitTiles :
            s \in ReachFrom(tiles, Objs(entities, ent), {PlayerPos})

(***************************************************************************)
(* C26: when _generate_new_level has completed, no NPC and no enemy stands *)
(* on the tile occupied by the player.                                     *)
(* Violated: populate_entities tests a position against the entity lists   *)
(* only, and the player, placed before it, is in none of them.             *)
(***************************************************************************)
C26_NobodyOnPlayer ==
    pc = "play" =>
        \A i \in 1..Len(entities) :
            <<ent[entities[i]].x, ent[entities[i]].y>> # PlayerPos


(***************************************************************************)
(* C27: in pregenerated mode a character generated for level L from the    *)
(* persisted store comes from a descriptor stored under a key of level L:  *)
(* generation for level 1 never returns a descriptor stored for level 10   *)
(* only.                                                                   *)
(* Violated: the keys are filtered by the prefix '<kind>_level_<L>', which *)
(* for L = 1 is also a prefix of the keys of level 10.                     *)
(***************************************************************************)
\* The call just returned took its descriptor from the persisted store.
FromStore(pregenerated, kind) ==
    /\ use_pregenerated
    /\ LevelKeys(pregenerated, kind, call.level) # {}

\* The store holds the call's descriptor under a key of the call's level.
StoredForLevel(pregenerated, kind) ==
    \E k \in DOMAIN pregenerated :
        /\ k.kind = kind
        /\ k.level = call.level
        /\ pregenerated[k] = call.data

C27_SameLevelOnly ==
    /\ (GenNpcDone /\ FromStore(pregenerated_npcs, "npc")) =>
          StoredForLevel(pregenerated_npcs, "npc")
    /\ (GenEnemyDone /\ FromStore(pregenerated_enemies, "enemy")) =>
          StoredForLevel(pregenerated_enemies, "enemy")

StoreFollowsCache(cache, pregenerated, file) ==
    IF cache = <<>>
    THEN LoadFile(file) = pregenerated
    ELSE file = [exists |-> TRUE, data |-> cache]

UpdateWidth == 6
UpdateHeight == 5

\* The movement fields set by NPC.__init__ and by Enemy.__init__
NpcAI(c) == c @@ [move_cooldown |-> 0, move_cooldown_max |-> 5]
EnemyAI(c) ==
    c @@ [move_cooldown |-> 0, move_cooldown_max |-> 3, detection_range |-> 8]

\* The step of move_towards along one axis: 1, -1 or 0
StepTo(from, to) == IF from < to THEN 1 ELSE IF from > to THEN -1 ELSE 0

\* Entity.move_towards(target_x, target_y, dungeon): the entity after the
\* call, on the dungeon of grid t and entity objects es
MoveTowards(e, target_x, target_y, t, es) ==
    LET dx == StepTo(e.x, target_x)
        dy == StepTo(e.y, target_y)
    IN  IF dx # 0 /\ dy # 0 /\ IsWalkable(t, es, e.x + dx, e.y + dy)
        THEN [e EXCEPT !.x = @ + dx, !.y = @ + dy]
        ELSE IF dx # 0 /\ IsWalkable(t, es, e.x + dx, e.y)
        THEN [e EXCEPT !.x = @ + dx]
        ELSE IF dy # 0 /\ IsWalkable(t, es, e.x, e.y + dy)
        THEN [e EXCEPT !.y = @ + dy]
        ELSE e

\* Entity.distance_to(other) < range, both sides squared
DistanceBelow(e, other, range) ==
    (e.x - other.x) * (e.x - other.x) + (e.y - other.y) * (e.y - other.y)
        < range * range

\* hasattr(player, "dungeon"): the object p has the attribute
HasDungeon(p) == "dungeon" \in DOMAIN p

\* The random movement of NPC.update and Enemy.update on the dungeon d =
\* player.dungeon: the entity after each draw of dx and dy
RandomMoves(e, d) ==
    { IF IsWalkable(d.tiles, Objs(d.entities, d.ent), e.x + dx, e.y + dy)
      THEN [e EXCEPT !.x = @ + dx, !.y = @ + dy]
      ELSE e : dx \in {-1, 0, 1}, dy \in {-1, 0, 1} }

\* NPC.update(player): the NPC after the call, for each draw
NpcUpdate(e, p) ==
    LET e1 == [e EXCEPT !.move_cooldown = @ - 1]
    IN  IF e1.move_cooldown <= 0
        THEN LET e2 == [e1 EXCEPT !.move_cooldown = e.move_cooldown_max]
             IN  IF HasDungeon(p) THEN RandomMoves(e2, p.dungeon) ELSE {e2}
        ELSE {e1}

\* Enemy.update(player): the enemy after the call, for each draw
EnemyUpdate(e, p) ==
    LET e1 == [e EXCEPT !.move_cooldown = @ - 1]
    IN  IF e1.move_cooldown <= 0
        THEN LET e2 == [e1 EXCEPT !.move_cooldown = e.move_cooldown_max]
             IN  IF DistanceBelow(e2, p, e2.detection_range)
                 THEN IF HasDungeon(p)
                      THEN { MoveTowards(e2, p.x, p.y, p.dungeon.tiles,
                                         Objs(p.dungeon.entities, p.dungeon.ent)) }
                      ELSE {e2}
                 ELSE IF HasDungeon(p) THEN RandomMoves(e2, p.dungeon) ELSE {e2}
        ELSE {e1}

\* Dungeon.update_entities(player), from the k-th member of the list on:
\* the entity objects after the loop, for each sequence of draws
RECURSIVE UpdateEntities(_, _, _, _)
UpdateEntities(store, ids, k, p) ==
    IF k > Len(ids)
    THEN {store}
    ELSE UNION { UpdateEntities([store EXCEPT ![ids[k]] = e], ids, k + 1, p) :
                   e \in IF store[ids[k]].entity_type = "enemy"
                         THEN EnemyUpdate(store[ids[k]], p)
                         ELSE NpcUpdate(store[ids[k]], p) }

\* Game.update
GameUpdate ==
    /\ pc = "update" /\ running
    /\ ent' \in UpdateEntities(ent, entities, 1, player)
    /\ pc' = "input"
    /\ call' = [op |-> "update"]
    /\ UNCHANGED <<genVars, entities, npcs, enemies, todo, cap>>
    /\ UNCHANGED <<gameVars, talkVars, charVars>>

\* Game.handle_input(key) in the control loop, for an arrow key or for the
\* -1 of a poll that timed out; the grid of this specification has no
\* stairs, so that no move descends.
UpdateInput ==
    /\ pc = "input" /\ running
    /\ \/ \E key \in DOMAIN MoveKeys :
            /\ \E g \in {TryMove(GameState, MoveKeys[key][1], MoveKeys[key][2],
                                 CHOOSE d \in LevelDraws : TRUE)} : SetGame(g)
            /\ call' = [op |-> "handle_input", key |-> key]
       \/ /\ call' = [op |-> "handle_input", key |-> "none"]
          /\ UNCHANGED <<player, current_level, game_log, running, tiles,
                         entities, npcs, enemies, ent, charVars>>
    /\ pc' = "update"
    /\ UNCHANGED <<width, height, max_rooms, rooms, r, todo, cap, steps>>
    /\ UNCHANGED <<talkVars, use_pregenerated, save_generated,
                   pregenerated_npcs, pregenerated_enemies>>

(***************************************************************************)
(* SpecUpdate: the control loop, handle_input and update in turn, on a     *)
(* level of one room with a pillar, the player, one NPC and one enemy on   *)
(* Floor tiles of it, the two characters new (their cooldowns at 0).       *)
(***************************************************************************)
UpdateTiles ==
    SetTile(CarveRoom(NewTiles(UpdateWidth, UpdateHeight),
                      Room(0, 0, UpdateWidth - 1, UpdateHeight - 1)),
            2, 2, Wall)

InitUpdate ==
    /\ pc = "input"
    /\ width = UpdateWidth /\ height = UpdateHeight /\ max_rooms = 1
    /\ tiles = UpdateTiles
    /\ rooms = << Room(0, 0, UpdateWidth - 1, UpdateHeight - 1) >>
    /\ r = 1
    /\ todo = [npcs |-> 0, enemies |-> 0]
    /\ cap = [npcs |-> 1, enemies |-> 1]
    /\ NoTalk /\ NoCall /\ NoChars
    /\ steps = 0
    /\ current_level = 0
    /\ game_log = <<>>
    /\ running = TRUE
    /\ entities = <<1, 2>> /\ npcs = <<1>> /\ enemies = <<2>>
    /\ \E pp \in CellsWith(UpdateTiles, Floor) :
         player = [x |-> pp[1], y |-> pp[2], hp |-> 100, attack |-> 10]
    /\ \E np \in CellsWith(UpdateTiles, Floor),
          ep \in CellsWith(UpdateTiles, Floor) :
         /\ np # ep
         /\ ent = << NpcAI(Placed(CreateNpcFromData(NpcFull, 0), np[1], np[2])),
                     EnemyAI(Placed(CreateEnemyFromData(EnemyFull, 0),
                                    ep[1], ep[2])) >>

NextUpdate == UpdateInput \/ GameUpdate

SpecUpdate == InitUpdate /\ [][NextUpdate]_vars

(***************************************************************************)
(* C29: when Game.update runs for an enemy whose move cooldown expires in  *)
(* it and whose Euclidean distance to the player is below its detection    *)
(* range, the enemy ends on the tile move_towards takes it to: one step    *)
(* toward the player, diagonal first, then horizontal, then vertical, the  *)
(* first of them that is walkable; and no update moves an enemy onto a     *)
(* tile that is not walkable.                                              *)
(* Violated: Enemy.update looks for the dungeon in player.dungeon, which   *)
(* nothing sets, and skips move_towards without it.                        *)
(***************************************************************************)
C29_EnemyApproaches ==
    [][ (pc = "update" /\ pc' = "input") =>
          \A i \in 1..Len(enemies) :
              LET e == ent[enemies[i]]
                  after == ent'[enemies[i]]
                  es == Objs(entities, ent)
                  moved == MoveTowards(e, player.x, player.y, tiles, es)
              IN  /\ (/\ e.move_cooldown - 1 <= 0
                      /\ DistanceBelow(e, player, e.detection_range))
                       => (after.x = moved.x /\ after.y = moved.y)
                  /\ (after.x # e.x \/ after.y # e.y)
                       => IsWalkable(tiles, es, after.x, after.y) ]_vars


(***************************************************************************)
(* talk(query) with a completion call that raises.  Neither call sits in a *)
(* try block, so the exception leaves talk at the call.                    *)
(***************************************************************************)
\* What a failed talk reports: the call that raised and the number of the
\* talk
TalkRaised(which, n) == [op |-> "talk", raised |-> which, n |-> n]

\* The summarization call is reached by _trim_conversation_history on
\* history h with max_history_length n
SummaryCalled(h, n) == Len(h) > n /\ Len(h) - KeepCount(n) > 2

\* talk(player_query), the response call raising: nothing was assigned
TalkResponseRaises ==
    /\ pc = "talk"
    /\ talks < MaxTalks
    /\ talks' = talks + 1
    /\ history' = history
    /\ call' = TalkRaised("response", talks + 1)
    /\ UNCHANGED <<max_history_length, pc>>
    /\ UNCHANGED <<genVars, entVars, gameVars>>
    /\ UNCHANGED charVars

\* talk(player_query), the response call returning and the summarization
\* call of the trim raising: the exchange was appended before the trim, and
\* the trim assigns conversation_history only after the call
TalkSummaryRaises ==
    /\ pc = "talk"
    /\ talks < MaxTalks
    /\ LET h == Append(history, Exchange(talks + 1))
       IN  /\ SummaryCalled(h, max_history_length)
           /\ history' = h
    /\ talks' = talks + 1
    /\ call' = TalkRaised("summary", talks + 1)
    /\ UNCHANGED <<max_history_length, pc>>
    /\ UNCHANGED <<genVars, entVars, gameVars>>
    /\ UNCHANGED charVars

\* SpecTalkFail: one character talked to, each completion call returning or
\* raising.
NextTalkFail == Talk \/ TalkResponseRaises \/ TalkSummaryRaises

SpecTalkFail == InitTalk /\ [][NextTalkFail]_vars

(***************************************************************************)
(* C30: when a completion call raises during talk(query), the response     *)
(* call or the summarization call of the trim, the conversation history    *)
(* after the failed call equals the history before it, and so holds at     *)
(* most max_history_length exchanges if it did before.                     *)
(* Violated: when the summarization call raises, the new exchange has      *)
(* already been appended and the history is left one over the maximum.     *)
(***************************************************************************)
C30_FailedTalkKeepsHistory ==
    [][ (call'.op = "talk" /\ call' # call) =>
          /\ history' = history
          /\ Len(history) <= max_history_length =>
               Len(history') <= max_history_length ]_vars

====
